---- MODULE Spec2Model ----
(***************************************************************************)
(* adobe/asset-compute-client: the AssetComputeClient lifecycle            *)
(* (register / process / unregister / close), the correlation of journal   *)
(* events with process() batches (waitActivation, wait), and the retry on  *)
(* HTTP 429 (lib/retry.js as used by AssetCompute, and the retry loop of   *)
(* AssetComputeClientRetry).                                               *)
(*                                                                         *)
(* Spec       the client of lib/client.js on top of AssetCompute + retry   *)
(* SpecRetry  the retry engine of lib/retry.js alone                       *)
(* SpecLoop   the retry loop of AssetComputeClientRetry                    *)
(***************************************************************************)
EXTENDS Integers, Sequences, FiniteSets, TLC

\* ---------------------------------------------------------------- bounds
MaxRequests == 2
\* process() calls made by the caller
MaxRenditions == 2
\* renditions per process() call
MaxDeliver == 2
\* times the journal may deliver the event of one rendition
MaxWaiters == 2
\* waitActivation() calls
MaxWaits == 1
\* wait() calls
MaxCalls == 3
\* calls the caller makes in all (register, unregister, close, process,
\* waitActivation, wait)
MaxEvents == 2
\* events the journal delivers in all
MaxConfigured == 3
MaxSessionCalls == 5
\* the longest CLIENT_SECRETS / SCOPES array of an integration descriptor
MaxArray == 1
\* calls the caller makes in all under SpecSessions
\* largest max429RetryCount given to AssetCompute under SpecRetry and to
\* AssetComputeClientRetry under SpecLoop

\* ------------------------------------------------------- program constants
MAX_RETRY_ON_HTTP_429 == 4
TOO_MANY_REQUEST_ERROR == "TooManyRequestsError"
TOO_MANY_REQUEST_ERROR_CODE == 429

\* --------------------------------------------------------- value encoding
Undefined == -1000
\* JavaScript undefined, for number-valued fields
NotANumber == -999
\* a value whose typeof is not 'number'
MyId == 1
\* this.id, the uuid of this client
OtherId == 2
\* the id of another client on the shared journal

IsNumber(x) == x # Undefined /\ x # NotANumber
Falsy(x) == x = Undefined \/ x = 0

RequestIds == 1..MaxRequests
WaiterIds == 1..MaxWaiters
WaitIds == 1..MaxWaits
IndexDomain == -1..MaxRenditions
\* the array indices an event tag can name in the model

VARIABLES
    registered,
    journal,
    initialized,
    eventEmitter,
    pendingRenditions,
    listeners,
    lifecycle,
    requests,
    delivered,
    waiters,
    waits,
    lifecycleCalls,
    rt,
    loop,
    callsAllowed,
    emitted,
    args,
    result

clientVars == <<registered, journal, initialized, eventEmitter, pendingRenditions,
                listeners, lifecycle, requests, delivered, waiters, waits, lifecycleCalls>>
\* what only some of the specifications use: the calls the caller makes in all, the
\* record of what the client emitted last, the arguments and the result of a call
otherVars == <<callsAllowed, emitted, args, result>>
vars == <<registered, journal, initialized, eventEmitter, pendingRenditions,
          listeners, lifecycle, requests, delivered, waiters, waits,
          lifecycleCalls, rt, loop, callsAllowed, emitted, args, result>>

\* ------------------------------------------------------------------ errors
NoError == [name |-> "none", code |-> 0, attempts |-> 0]
GenericError(status) == [name |-> "Error", code |-> status, attempts |-> 0]
MustRegisterError == [name |-> "MustRegister", code |-> 0, attempts |-> 0]
\* error.js: TooManyRequestsError sets name and code
TooManyRequestsError == [name |-> TOO_MANY_REQUEST_ERROR, code |-> TOO_MANY_REQUEST_ERROR_CODE, attempts |-> 0]

\* assetcompute.js: handleHttpResponseNotOk
handleHttpResponseNotOk(status) ==
    IF status = 429 THEN TooManyRequestsError ELSE GenericError(status)

Statuses == {200, 429, 500}

\* what a response carries besides its status: the payload of a 200 (the journal
\* handle, the requestId), the text of any other
Bodies == {1, 2}
NoResponse == [status |-> 0, body |-> 0]

\* assetcompute.js: `Unable to invoke /<op>: ${response.status} ${responseText}`
NoMessage == [op |-> "none", status |-> 0, text |-> 0]
errorMessage(op, status, text) == [op |-> op, status |-> status, text |-> text]

\* an AssetCompute / AssetComputeClientRetry not yet called, with its constructor options
IdleRt == [pc |-> "idle", op |-> "none", max429RetryCount |-> Undefined,
           disable429Retry |-> FALSE, retryOpts |-> [max429RetryCount |-> 0, disable429Retry |-> FALSE],
           attempt |-> 0, calls |-> 0, error |-> NoError, message |-> NoMessage,
           payload |-> 0, first |-> NoResponse, last |-> NoResponse,
           header |-> [string |-> FALSE, chars |-> <<>>, time |-> -1], now |-> 0,
           retryAfter |-> Undefined, ms |-> 0]
IdleLoop == [pc |-> "idle", op |-> "none", max429RetryCount |-> 0, retryCount |-> 0,
             calls |-> 0, non429Response |-> FALSE, hasError |-> FALSE,
             error |-> NoError, thrown |-> NoError, only429 |-> TRUE]

\* ------------------------------------------------------ retry (lib/retry.js)
\* retry(): retryOpts computed from the options of the call
retryOptsOf(opts) ==
    [max429RetryCount |-> IF Falsy(opts.max429RetryCount)
                          THEN MAX_RETRY_ON_HTTP_429
                          ELSE opts.max429RetryCount,
     disable429Retry |-> opts.disable429Retry]

shouldRetry_leq(attempt, error, retryOpts) ==
    IF retryOpts.disable429Retry
    THEN FALSE
    ELSE IF error.code = TOO_MANY_REQUEST_ERROR_CODE /\ error.name = TOO_MANY_REQUEST_ERROR
         THEN attempt <= retryOpts.max429RetryCount
         ELSE FALSE

shouldRetry_never(attempt, error, retryOpts) == FALSE

shouldRetry_anyError(attempt, error, retryOpts) == attempt < retryOpts.max429RetryCount

\* retry.js: shouldRetry
shouldRetry(attempt, error, retryOpts) ==
    IF retryOpts.disable429Retry
    THEN FALSE
    ELSE IF error.code = TOO_MANY_REQUEST_ERROR_CODE /\ error.name = TOO_MANY_REQUEST_ERROR
         THEN attempt < retryOpts.max429RetryCount
         ELSE FALSE

retryReject_created(caught, attempt) ==
    [error |-> [name |-> "Running into 429s", code |-> 0, attempts |-> attempt + 1],
     message |-> NoMessage]

\* retry.js: retryInvoke, `return reject(error)`: what the promise is rejected with
retryReject(caught, attempt) == caught

\* --------------------------------------------------- events of the journal
EventTypes == {"rendition_created", "rendition_failed"}
EventShapes == {"ok", "noUserData", "indexNotNumber", "lengthNotNumber"}

NoEvent == [type |-> "none", requestId |-> 0, cid |-> 0, tagged |-> FALSE,
            index |-> Undefined, length |-> Undefined, seq |-> 0]

\* the event the service emits for rendition i of n of request r, as stamped by
\* process(); shape says which part of the stamp the service failed to echo
MakeEvent(type, r, cid, i, n, shape, seq) ==
    [type |-> type, requestId |-> r, cid |-> cid,
     tagged |-> (shape # "noUserData"),
     index |-> IF shape = "noUserData" THEN Undefined
               ELSE IF shape = "indexNotNumber" THEN NotANumber ELSE i,
     length |-> IF shape = "noUserData" THEN Undefined
                ELSE IF shape = "lengthNotNumber" THEN NotANumber ELSE n,
     seq |-> seq]

\* what the service makes of rendition i: created, or failed
RenditionOutcome(i) == IF i % 2 = 0 THEN "rendition_created" ELSE "rendition_failed"

getAssetComputeClientId_mine(event) == MyId

\* client.js: getAssetComputeClientId
getAssetComputeClientId(event) == event.cid

\* ------------------------------------------------- the pending-work counter
\* client.js: completePendingRendition, the counter after one own event
completePendingRendition(pending) == pending - 1

completePendingRenditionEmits_early(pending) ==
    IF pending < 0 THEN "error"
    ELSE IF pending <= 1 THEN "drained" ELSE "nothing"

\* client.js: completePendingRendition, what it emits on the client
completePendingRenditionEmits(pending) ==
    IF pending < 0 THEN "error"
    ELSE IF pending = 0 THEN "drained" ELSE "nothing"

processAddsPending_one(pending, n) == pending + 1

\* client.js: process(), the counter after a successful call with n renditions
processAddsPending(pending, n) == pending + n

\* ------------------------------------------------ waitActivation's context
NoContext == [pendingEvents |-> Undefined, hasEvents |-> FALSE, length |-> 0,
              slots |-> [i \in IndexDomain |-> NoEvent]]

\* new Array(len)
NewArray(context, len) ==
    [context EXCEPT !.hasEvents = TRUE,
                    !.length = IF len > 0 THEN len ELSE 0,
                    !.slots = [i \in IndexDomain |-> NoEvent]]

ArrayStore_arrival(context, index, event) ==
    LET filled == Cardinality({i \in IndexDomain : context.slots[i] # NoEvent})
    IN [context EXCEPT !.slots[filled] = event,
                       !.length = IF filled >= @ THEN filled + 1 ELSE @]

\* events[index] = event on a JavaScript array
ArrayStore(context, index, event) ==
    [context EXCEPT !.slots[index] = event,
                    !.length = IF index >= @ THEN index + 1 ELSE @]

slotTaken_never(context, index) == FALSE

\* client.js: completeClientEvent, the test `context.events[userData.index]`
slotTaken(context, index) == context.slots[index] # NoEvent

completeClientEvent_any(requestId, event, context) ==
    IF ~event.tagged
    THEN [context |-> context, error |-> "expect userData"]
    ELSE IF ~IsNumber(event.index)
    THEN [context |-> context, error |-> "expect index"]
    ELSE IF ~IsNumber(event.length)
    THEN [context |-> context, error |-> "expect length"]
    ELSE IF Falsy(context.pendingEvents) /\ event.length < 0
    THEN [context |-> [context EXCEPT !.pendingEvents = event.length],
          error |-> "invalid array length"]
    ELSE LET c1 == IF Falsy(context.pendingEvents)
                   THEN [NewArray(context, event.length) EXCEPT !.pendingEvents = event.length]
                   ELSE context
         IN IF ~slotTaken(c1, event.index)
            THEN [context |-> [ArrayStore(c1, event.index, event)
                                 EXCEPT !.pendingEvents = c1.pendingEvents - 1],
                  error |-> "none"]
            ELSE [context |-> c1, error |-> "duplicate event"]

\* client.js: completeClientEvent; returns the context and the error thrown
completeClientEvent(requestId, event, context) ==
    IF event.requestId # requestId
    THEN [context |-> context, error |-> "none"]
    ELSE IF ~event.tagged
    THEN [context |-> context, error |-> "expect userData"]
    ELSE IF ~IsNumber(event.index)
    THEN [context |-> context, error |-> "expect index"]
    ELSE IF ~IsNumber(event.length)
    THEN [context |-> context, error |-> "expect length"]
    ELSE IF Falsy(context.pendingEvents) /\ event.length < 0
    THEN [context |-> [context EXCEPT !.pendingEvents = event.length],
          error |-> "invalid array length"]
    ELSE LET c1 == IF Falsy(context.pendingEvents)
                   THEN [NewArray(context, event.length) EXCEPT !.pendingEvents = event.length]
                   ELSE context
         IN IF ~slotTaken(c1, event.index)
            THEN [context |-> [ArrayStore(c1, event.index, event)
                                 EXCEPT !.pendingEvents = c1.pendingEvents - 1],
                  error |-> "none"]
            ELSE [context |-> c1, error |-> "duplicate event"]

\* ------------------------------------------------------- promises, listeners
\* a promise settles once: resolve/reject on a settled promise does nothing
Settle(state, outcome) == IF state = "pending" THEN outcome ELSE state

\* error: the default 'error' listeners process() has put on the client;
\* onError: the 'error' listeners of the consumer
NoListeners == [rendition_created |-> {}, rendition_failed |-> {}, drained |-> {}, error |-> 0,
                onError |-> 0]

\* client.js: waitActivation, self.on(...) of both listeners
waitActivationListen(l, w) ==
    [l EXCEPT !.rendition_created = @ \cup {w}, !.rendition_failed = @ \cup {w}]

waitActivationClearEvents_created(l, w) == [l EXCEPT !.rendition_created = @ \ {w}]

\* client.js: waitActivation, clearEvents (the listener part)
waitActivationClearEvents(l, w) ==
    [l EXCEPT !.rendition_created = @ \ {w}, !.rendition_failed = @ \ {w}]

\* client.js: wait, self.on("drained", listener)
waitListen(l, k) == [l EXCEPT !.drained = @ \cup {<<k, "listener">>}]

\* client.js: wait, clearEvents (the listener part): self.off("drained", resolve)
waitClearEvents(l, k) == [l EXCEPT !.drained = @ \ {<<k, "resolve">>}]

\* clearEvents() of every waitActivation listener in ws that asked for it
RECURSIVE waitActivationClearAll(_, _)
waitActivationClearAll(l, ws) ==
    IF ws = {} THEN l
    ELSE LET w == CHOOSE x \in ws : TRUE
         IN waitActivationClearAll(waitActivationClearEvents(l, w), ws \ {w})

\* clearEvents() of every 'drained' listener in ks that ran
RECURSIVE waitClearAll(_, _)
waitClearAll(l, ks) ==
    IF ks = {} THEN l
    ELSE LET k == CHOOSE x \in ks : TRUE
         IN waitClearAll(waitClearEvents(l, k), ks \ {k})

\* missed: how many events of the request the journal had delivered before the call;
\* journal: this.journal when the call was made
NoWaiter == [state |-> "unused", requestId |-> 0, timer |-> FALSE,
             context |-> NoContext, error |-> "none", missed |-> 0, journal |-> 0]
\* how: what settled it (immediate, drained, timed out, internal error)
NoWait == [state |-> "unused", timer |-> FALSE, how |-> "none"]

listener_swallows(wr, event) ==
    LET r == completeClientEvent(wr.requestId, event, wr.context)
    IN IF r.error # "none"
       THEN [waiter |-> wr, cleared |-> FALSE]
       ELSE IF r.context.hasEvents /\ r.context.pendingEvents = 0
       THEN [waiter |-> [wr EXCEPT !.state = Settle(@, "resolved"), !.timer = FALSE,
                                   !.context = r.context],
             cleared |-> TRUE]
       ELSE [waiter |-> [wr EXCEPT !.context = r.context], cleared |-> FALSE]

\* client.js: waitActivation, the listener given to both event kinds;
\* cleared says whether it ran clearEvents()
listener(wr, event) ==
    LET r == completeClientEvent(wr.requestId, event, wr.context)
    IN IF r.error # "none"
       THEN [waiter |-> [wr EXCEPT !.state = Settle(@, "rejected"), !.timer = FALSE,
                                   !.error = IF wr.state = "pending" THEN r.error ELSE @,
                                   !.context = r.context],
             cleared |-> TRUE]
       ELSE IF r.context.hasEvents /\ r.context.pendingEvents = 0
       THEN [waiter |-> [wr EXCEPT !.state = Settle(@, "resolved"), !.timer = FALSE,
                                   !.context = r.context],
             cleared |-> TRUE]
       ELSE [waiter |-> [wr EXCEPT !.context = r.context], cleared |-> FALSE]

\* client.js: wait, the 'drained' listener: clearEvents(); resolve()
drainedListener(wt) ==
    [wt EXCEPT !.state = Settle(@, "resolved"), !.timer = FALSE,
               !.how = IF wt.state = "pending" THEN "drained" ELSE @]

\* --------------------------------------------------------------- the client
NoEmitter == [journal |-> 0, open |-> FALSE]
\* calls: how many times the call reached this.assetCompute
\* payload: the response the call resolved with; returned: what create() handed back
NoCall == [op |-> "none", pc |-> "idle", calls |-> 0, outcome |-> "none", error |-> NoError,
           payload |-> 0, returned |-> "none"]
NoRequest == [pc |-> "none", n |-> 0, calls |-> 0, error |-> NoError, payload |-> 0]
Operations == {"register", "process", "unregister"}

\* what the client emitted when its handlers last ran: cause is what the
\* subscription emitted ("event" or "error"), event the rendition event the client
\* re-emitted, signal what completePendingRendition emitted, errors the 'error'
\* events emitted on the client, logged the console.log calls of the default
\* listeners, handled the runs of the consumer's listener, thrown whether emit
\* found no listener; erred: the subscription has emitted an 'error' before;
\* order: what the handler emitted on the client, in the order of its statements
NoEmission == [cause |-> "none", event |-> "none", signal |-> "nothing", errors |-> 0,
               logged |-> 0, handled |-> 0, thrown |-> FALSE, erred |-> FALSE,
               order |-> <<>>]
NoArgs == [kind |-> "none"]
NoResult == [kind |-> "none"]

\* client.js: constructor
InitClient ==
    /\ registered = FALSE
    /\ journal = 0
    /\ initialized = FALSE
    /\ eventEmitter = NoEmitter
    /\ pendingRenditions = 0
    /\ listeners = NoListeners
    /\ lifecycle = NoCall
    /\ requests = [r \in RequestIds |-> NoRequest]
    /\ delivered = [r \in RequestIds |-> [i \in 0..(MaxRenditions - 1) |-> 0]]
    /\ waiters = [w \in WaiterIds |-> NoWaiter]
    /\ waits = [k \in WaitIds |-> NoWait]
    /\ lifecycleCalls = 0

Init ==
    /\ InitClient
    /\ callsAllowed = MaxCalls
    /\ emitted = NoEmission
    /\ args = NoArgs
    /\ result = NoResult
    /\ rt = IdleRt
    /\ loop = IdleLoop

\* calls the caller has made so far
ApiCalls ==
    lifecycleCalls
    + Cardinality({r \in RequestIds : requests[r].pc # "none"})
    + Cardinality({w \in WaiterIds : waiters[w].state # "unused"})
    + Cardinality({k \in WaitIds : waits[k].state # "unused"})

\* the journal handle the service returns for a new registration
NewJournal(old) == IF old = 1 THEN 2 ELSE 1

processGuard_always(isRegistered) == TRUE

\* client.js: process(), the guard
processGuard(isRegistered) == isRegistered

\* client.js: process(), `if (!this.eventEmitter)`: the subscription in use
processEmitter(emitter, j) ==
    IF emitter = NoEmitter THEN [journal |-> j, open |-> TRUE] ELSE emitter

processErrorListeners_none(emitter, l) == l

\* client.js: process(), the default 'error' listener added with a new subscription
processErrorListeners(emitter, l) ==
    IF emitter = NoEmitter THEN [l EXCEPT !.error = @ + 1] ELSE l

\* client.js: process() up to the call of assetCompute.process()
process(n) ==
    /\ n \in 1..MaxRenditions
    /\ ApiCalls < callsAllowed
    /\ \E r \in RequestIds :
        /\ requests[r].pc = "none"
        /\ \A q \in RequestIds : q < r => requests[q].pc # "none"
        /\ IF ~processGuard(registered)
           THEN /\ requests' = [requests EXCEPT ![r] =
                        [NoRequest EXCEPT !.pc = "rejected", !.n = n, !.error = MustRegisterError]]
                /\ UNCHANGED <<eventEmitter, listeners>>
           ELSE /\ eventEmitter' = processEmitter(eventEmitter, journal)
                /\ listeners' = processErrorListeners(eventEmitter, listeners)
                /\ requests' = [requests EXCEPT ![r] =
                        [NoRequest EXCEPT !.pc = "http", !.n = n, !.calls = 1]]
    /\ UNCHANGED <<registered, journal, initialized, pendingRenditions, lifecycle,
                   delivered, waiters, waits, lifecycleCalls, rt, loop, otherVars>>

\* client.js: process(), `await this.assetCompute.process(...)` settles with the
\* payload of a 200 response or with the error
processSettles(r, status, payload, error) ==
    /\ requests[r].pc = "http"
    /\ requests' = [requests EXCEPT ![r] =
            IF status = 200
            THEN [@ EXCEPT !.pc = "responded", !.payload = payload]
            ELSE [@ EXCEPT !.pc = "failed", !.error = error]]
    /\ UNCHANGED <<registered, journal, initialized, eventEmitter, pendingRenditions,
                   listeners, lifecycle, delivered, waiters, waits, lifecycleCalls>>

\* assetcompute.js: process() settles, after the retries of retry.js (SpecRetry),
\* with the response of the service or with the error of the last attempt
processResponse(r, status) ==
    /\ status \in Statuses
    /\ processSettles(r, status, r, handleHttpResponseNotOk(status))
    /\ UNCHANGED <<rt, loop, otherVars>>

\* client.js: process() after `await this.assetCompute.process(...)`
processReturn(r) ==
    /\ requests[r].pc = "responded"
    /\ pendingRenditions' = processAddsPending(pendingRenditions, requests[r].n)
    /\ requests' = [requests EXCEPT ![r].pc = "done"]
    /\ UNCHANGED <<registered, journal, initialized, eventEmitter, listeners, lifecycle,
                   delivered, waiters, waits, lifecycleCalls, rt, loop, otherVars>>

\* client.js: the 'rendition_created' / 'rendition_failed' handlers that process()
\* puts on the subscription, run for one event of the journal:
\* completePendingRendition(self), then self.emit(type, event)
forwardEvent(event) ==
    IF getAssetComputeClientId(event) = MyId
    THEN LET pending == completePendingRendition(pendingRenditions)
             emits == completePendingRenditionEmits(pending)
             drainedFor == IF emits = "drained"
                           THEN {k \in WaitIds : <<k, "listener">> \in listeners.drained}
                           ELSE {}
             ran == [w \in WaiterIds |->
                        IF w \in listeners[event.type]
                        THEN listener(waiters[w], event)
                        ELSE [waiter |-> waiters[w], cleared |-> FALSE]]
             cleared == {w \in WaiterIds : ran[w].cleared}
         IN /\ pendingRenditions' = pending
            /\ waits' = [k \in WaitIds |->
                            IF k \in drainedFor THEN drainedListener(waits[k]) ELSE waits[k]]
            /\ waiters' = [w \in WaiterIds |-> ran[w].waiter]
            /\ listeners' = waitActivationClearAll(waitClearAll(listeners, drainedFor), cleared)
    ELSE UNCHANGED <<pendingRenditions, waits, waiters, listeners>>

\* events.js: emit('error', ...) on the client: with no listener it throws; each
\* default listener (client.js) logs when listenerCount('error') <= 1; the
\* listeners of the consumer run
emitError(l) ==
    LET listenerCount == l.error + l.onError
    IN [thrown |-> listenerCount = 0,
        logged |-> IF listenerCount <= 1 THEN l.error ELSE 0,
        handled |-> l.onError]

\* client.js: the handlers process() puts on the subscription, what they emit on
\* the client for one event: completePendingRendition(self) first, then
\* self.emit(type, event), which is not reached when the first threw
forwardEmits(event) ==
    LET seen == [NoEmission EXCEPT !.cause = "event", !.erred = emitted.erred]
    IN IF getAssetComputeClientId(event) = MyId
       THEN LET pending == completePendingRendition(pendingRenditions)
                signal == completePendingRenditionEmits(pending)
                onError == emitError(listeners)
            IN IF signal = "error"
               THEN [seen EXCEPT !.signal = signal, !.errors = 1,
                                 !.logged = onError.logged, !.handled = onError.handled,
                                 !.thrown = onError.thrown,
                                 !.event = IF onError.thrown THEN "none" ELSE event.type,
                                 !.order = IF onError.thrown THEN <<signal>>
                                           ELSE <<signal, event.type>>]
               ELSE [seen EXCEPT !.signal = signal, !.event = event.type,
                                 !.order = IF signal = "drained" THEN <<signal, event.type>>
                                           ELSE <<event.type>>]
       ELSE seen

RECURSIVE SumOver(_, _)
SumOver(f, S) ==
    IF S = {} THEN 0
    ELSE LET x == CHOOSE y \in S : TRUE IN f[x] + SumOver(f, S \ {x})

\* events delivered so far
EventsDelivered ==
    SumOver([r \in RequestIds |-> SumOver(delivered[r], 0..(MaxRenditions - 1))], RequestIds)

\* the event of rendition i of request r as the journal delivers it next
NextEvent(r, i, shape) ==
    MakeEvent(RenditionOutcome(i), r, MyId, i, requests[r].n, shape, delivered[r][i] + 1)

\* the journal delivers the event of rendition i of request r to the subscription,
\* whose handler runs
journalDelivers(r, i, shape) ==
    /\ eventEmitter # NoEmitter /\ eventEmitter.open
    /\ requests[r].pc \in {"responded", "done"}
    /\ i \in 0..(requests[r].n - 1)
    /\ delivered[r][i] < MaxDeliver
    /\ EventsDelivered < MaxEvents
    /\ shape \in EventShapes
    /\ delivered' = [delivered EXCEPT ![r][i] = @ + 1]
    /\ forwardEvent(NextEvent(r, i, shape))
    /\ UNCHANGED <<registered, journal, initialized, eventEmitter, lifecycle, requests,
                   lifecycleCalls, rt, loop, callsAllowed, args, result>>

\* journalDelivers, what the client emits not being recorded
deliverEvent(r, i, shape) ==
    /\ journalDelivers(r, i, shape)
    /\ UNCHANGED emitted

\* client.js: waitActivation(requestId, timeout): timer set, both listeners on
waitActivation(requestId) ==
    /\ requests[requestId].pc = "done"
    /\ ApiCalls < callsAllowed
    /\ \E w \in WaiterIds :
        /\ waiters[w].state = "unused"
        /\ \A v \in WaiterIds : v < w => waiters[v].state # "unused"
        /\ waiters' = [waiters EXCEPT ![w] =
                [NoWaiter EXCEPT !.state = "pending", !.requestId = requestId, !.timer = TRUE,
                                 !.missed = SumOver(delivered[requestId], 0..(MaxRenditions - 1)),
                                 !.journal = journal]]
        /\ listeners' = waitActivationListen(listeners, w)
    /\ UNCHANGED <<registered, journal, initialized, eventEmitter, pendingRenditions,
                   lifecycle, requests, delivered, waits, lifecycleCalls, rt, loop, otherVars>>

\* client.js: waitActivation, the setTimeout callback: clearEvents(); reject(...)
waitActivationTimeout(w) ==
    /\ waiters[w].timer
    /\ waiters' = [waiters EXCEPT ![w].state = Settle(@, "rejected"),
                                  ![w].timer = FALSE,
                                  ![w].error = IF waiters[w].state = "pending"
                                               THEN "timed out" ELSE @]
    /\ listeners' = waitActivationClearEvents(listeners, w)
    /\ UNCHANGED <<registered, journal, initialized, eventEmitter, pendingRenditions,
                   lifecycle, requests, delivered, waits, lifecycleCalls, rt, loop, otherVars>>

waitBranch_lenient(pending) ==
    IF pending > 0 THEN "listen" ELSE "return"

waitBranch_geq(pending) ==
    IF pending < 0 THEN "throw"
    ELSE IF pending >= 0 THEN "listen" ELSE "return"

\* client.js: wait(), which branch it takes for a value of the counter
waitBranch(pending) ==
    IF pending < 0 THEN "throw"
    ELSE IF pending > 0 THEN "listen" ELSE "return"

\* client.js: wait(timeout)
wait ==
    /\ ApiCalls < callsAllowed
    /\ \E k \in WaitIds :
        /\ waits[k].state = "unused"
        /\ \A j \in WaitIds : j < k => waits[j].state # "unused"
        /\ LET branch == waitBranch(pendingRenditions)
           IN IF branch = "throw"
              THEN /\ waits' = [waits EXCEPT ![k] =
                            [NoWait EXCEPT !.state = "rejected", !.how = "internal error"]]
                   /\ UNCHANGED listeners
              ELSE IF branch = "listen"
              THEN /\ waits' = [waits EXCEPT ![k] =
                            [NoWait EXCEPT !.state = "pending", !.timer = TRUE]]
                   /\ listeners' = waitListen(listeners, k)
              ELSE /\ waits' = [waits EXCEPT ![k] =
                            [NoWait EXCEPT !.state = "resolved", !.how = "immediate"]]
                   /\ UNCHANGED listeners
    /\ UNCHANGED <<registered, journal, initialized, eventEmitter, pendingRenditions,
                   lifecycle, requests, delivered, waiters, lifecycleCalls, rt, loop, otherVars>>

\* client.js: wait, the setTimeout callback: clearEvents(); reject(...)
waitTimeout(k) ==
    /\ waits[k].timer
    /\ waits' = [waits EXCEPT ![k].state = Settle(@, "rejected"),
                              ![k].timer = FALSE,
                              ![k].how = IF waits[k].state = "pending"
                                         THEN "timed out" ELSE @]
    /\ listeners' = waitClearEvents(listeners, k)
    /\ UNCHANGED <<registered, journal, initialized, eventEmitter, pendingRenditions,
                   lifecycle, requests, delivered, waiters, lifecycleCalls, rt, loop, otherVars>>

\* the subscription after close() was called on it
closeEmitter(emitter) == [emitter EXCEPT !.open = FALSE]

\* client.js: register() up to the call of assetCompute.register()
register ==
    /\ lifecycle.pc = "idle"
    /\ ApiCalls < callsAllowed
    /\ lifecycleCalls' = lifecycleCalls + 1
    /\ initialized' = TRUE
    /\ lifecycle' = [NoCall EXCEPT !.op = "register", !.pc = "http", !.calls = 1]
    /\ UNCHANGED <<registered, journal, eventEmitter, pendingRenditions, listeners,
                   requests, delivered, waiters, waits, rt, loop, otherVars>>

registeredWhileAwaiting_cleared(isRegistered) == FALSE

\* client.js: unregister(): _registered while the remote call is awaited; it is
\* assigned only after the await
registeredWhileAwaiting(isRegistered) == isRegistered

\* client.js: unregister() up to the call of assetCompute.unregister()
unregister ==
    /\ lifecycle.pc = "idle"
    /\ ApiCalls < callsAllowed
    /\ lifecycleCalls' = lifecycleCalls + 1
    /\ initialized' = TRUE
    /\ lifecycle' = [NoCall EXCEPT !.op = "unregister", !.pc = "http", !.calls = 1]
    /\ registered' = registeredWhileAwaiting(registered)
    /\ UNCHANGED <<journal, eventEmitter, pendingRenditions, listeners,
                   requests, delivered, waiters, waits, rt, loop, otherVars>>

registerSucceeds_stale(handle) ==
    /\ UNCHANGED journal
    /\ registered' = TRUE

\* client.js: register() after `await this.assetCompute.register()`
registerSucceeds(handle) ==
    /\ journal' = handle
    /\ registered' = TRUE

unregisterSucceeds_kept ==
    /\ UNCHANGED registered
    /\ UNCHANGED journal

\* client.js: unregister() after `await this.assetCompute.unregister()`
unregisterSucceeds ==
    /\ registered' = FALSE
    /\ UNCHANGED journal

createReturns_always(op, outcome) ==
    IF op # "create" THEN "none" ELSE "client"

\* client.js: create(), what it hands back once its register() has settled
createReturns(op, outcome) ==
    IF op # "create" THEN "none"
    ELSE IF outcome = "ok" THEN "client" ELSE "error"

\* client.js: register()/unregister(), `await this.assetCompute.register()` settles
\* with the payload of a 200 response or with the error, and what the client does
\* on success up to `await this.eventEmitter.close()`
lifecycleSettles(status, payload, error) ==
    /\ lifecycle.pc = "http"
    /\ IF status = 200
       THEN /\ IF lifecycle.op = "unregister"
               THEN unregisterSucceeds
               ELSE registerSucceeds(payload)
            /\ IF eventEmitter # NoEmitter
               THEN /\ eventEmitter' = closeEmitter(eventEmitter)
                    /\ lifecycle' = [lifecycle EXCEPT !.pc = "closing", !.payload = payload]
               ELSE /\ UNCHANGED eventEmitter
                    /\ lifecycle' = [lifecycle EXCEPT !.pc = "idle", !.outcome = "ok",
                                         !.payload = payload,
                                         !.returned = createReturns(lifecycle.op, "ok")]
       ELSE /\ lifecycle' = [lifecycle EXCEPT !.pc = "idle", !.outcome = "failed",
                                             !.error = error,
                                             !.returned = createReturns(lifecycle.op, "failed")]
            /\ UNCHANGED <<registered, journal, eventEmitter>>
    /\ UNCHANGED <<initialized, pendingRenditions, listeners, requests, delivered,
                   waiters, waits, lifecycleCalls>>

\* assetcompute.js: register()/unregister() settles, after the retries of retry.js
\* (SpecRetry), with the response of the service or with the error of the last attempt
lifecycleResponse(status) ==
    /\ status \in Statuses
    /\ lifecycleSettles(status, NewJournal(journal), handleHttpResponseNotOk(status))
    /\ UNCHANGED <<rt, loop, otherVars>>

lifecycleFinish_kept ==
    /\ lifecycle.pc = "closing"
    /\ UNCHANGED eventEmitter
    /\ lifecycle' = [lifecycle EXCEPT !.pc = "idle", !.outcome = "ok",
                                      !.returned = createReturns(lifecycle.op, "ok")]
    /\ UNCHANGED <<registered, journal, initialized, pendingRenditions, listeners,
                   requests, delivered, waiters, waits, lifecycleCalls, rt, loop, otherVars>>

\* client.js: register()/unregister() after `await this.eventEmitter.close()`
lifecycleFinish ==
    /\ lifecycle.pc = "closing"
    /\ eventEmitter' = NoEmitter
    /\ lifecycle' = [lifecycle EXCEPT !.pc = "idle", !.outcome = "ok",
                                      !.returned = createReturns(lifecycle.op, "ok")]
    /\ UNCHANGED <<registered, journal, initialized, pendingRenditions, listeners,
                   requests, delivered, waiters, waits, lifecycleCalls, rt, loop, otherVars>>

closeSubscription_skipped(emitter) == emitter

\* client.js: close(): if (this.eventEmitter) return this.eventEmitter.close()
closeSubscription(emitter) ==
    IF emitter # NoEmitter THEN closeEmitter(emitter) ELSE emitter

\* client.js: close()
close ==
    /\ ApiCalls < callsAllowed
    /\ lifecycleCalls' = lifecycleCalls + 1
    /\ eventEmitter' = closeSubscription(eventEmitter)
    /\ UNCHANGED <<registered, journal, initialized, pendingRenditions, listeners,
                   lifecycle, requests, delivered, waiters, waits, rt, loop, otherVars>>

Next ==
    \/ register
    \/ unregister
    \/ \E status \in Statuses : lifecycleResponse(status)
    \/ lifecycleFinish
    \/ close
    \/ \E n \in 1..MaxRenditions : process(n)
    \/ \E r \in RequestIds, status \in Statuses : processResponse(r, status)
    \/ \E r \in RequestIds : processReturn(r)
    \/ \E r \in RequestIds, i \in 0..(MaxRenditions - 1), shape \in EventShapes :
          deliverEvent(r, i, shape)
    \/ \E r \in RequestIds : waitActivation(r)
    \/ \E w \in WaiterIds : waitActivationTimeout(w)
    \/ wait
    \/ \E k \in WaitIds : waitTimeout(k)

Spec == Init /\ [][Next]_vars

TypeOK ==
    /\ registered \in BOOLEAN
    /\ journal \in 0..2
    /\ pendingRenditions \in Int

\* =========================================================== lib/retry.js
\* assetcompute.js: constructor, the two options of the 429 retry
InitRetry ==
    /\ InitClient
    /\ callsAllowed = MaxCalls
    /\ emitted = NoEmission
    /\ args = NoArgs
    /\ result = NoResult
    /\ rt \in {[IdleRt EXCEPT !.max429RetryCount = m, !.disable429Retry = d] :
                  m \in {Undefined} \cup 0..MaxConfigured, d \in BOOLEAN}
    /\ loop = IdleLoop

\* assetcompute.js register()/unregister()/process() calling retry(): retryOpts are
\* computed, retryInvoke does setImmediate(invoke, 0, 0)
retry(op) ==
    /\ rt.pc \in {"idle", "resolved", "rejected"}
    /\ op \in Operations
    /\ rt' = [rt EXCEPT !.pc = "scheduled", !.op = op,
                        !.retryOpts = retryOptsOf([max429RetryCount |-> rt.max429RetryCount,
                                                   disable429Retry |-> rt.disable429Retry]),
                        !.attempt = 0, !.calls = 0, !.error = NoError,
                        !.message = NoMessage, !.payload = 0, !.first = NoResponse,
                        !.last = NoResponse]
    /\ UNCHANGED <<clientVars, loop, otherVars>>

\* retry.js: invoke(attempt, ms) run by setImmediate / setTimeout: the fetch is sent
invoke ==
    /\ rt.pc = "scheduled"
    /\ rt' = [rt EXCEPT !.pc = "fetch", !.calls = @ + 1]
    /\ UNCHANGED <<clientVars, loop, otherVars>>

\* retry.js: invoke, after `await asyncFunc(options)` for one HTTP response
retryInvoke(status) ==
    /\ rt.pc = "fetch"
    /\ status \in Statuses
    /\ \E body \in Bodies :
         LET response == [status |-> status, body |-> body]
             error == handleHttpResponseNotOk(status)
             caught == [error |-> error, message |-> errorMessage(rt.op, status, body)]
             rejected == retryReject(caught, rt.attempt)
             seen == [rt EXCEPT !.last = response,
                                !.first = IF rt.attempt = 0 THEN response ELSE @]
         IN rt' = IF status = 200
                  THEN [seen EXCEPT !.pc = "resolved", !.payload = body]
                  ELSE IF shouldRetry(rt.attempt, error, rt.retryOpts)
                  THEN [seen EXCEPT !.pc = "scheduled", !.attempt = @ + 1]
                  ELSE [seen EXCEPT !.pc = "rejected", !.error = rejected.error,
                                    !.message = rejected.message]
    /\ UNCHANGED <<clientVars, loop, otherVars>>

NextRetry ==
    \/ \E op \in Operations : retry(op)
    \/ invoke
    \/ \E status \in Statuses : retryInvoke(status)

\* timers run and every fetch is answered
SpecRetry ==
    /\ InitRetry
    /\ [][NextRetry]_vars
    /\ WF_vars(invoke)
    /\ WF_vars(\E status \in Statuses : retryInvoke(status))

\* ================================== the client's calls over lib/retry.js
\* one caller awaiting each call: create(), register(), unregister(), process(),
\* each running the retry engine for its request
InitCall ==
    /\ InitClient
    /\ callsAllowed = MaxCalls
    /\ emitted = NoEmission
    /\ args = NoArgs
    /\ result = NoResult
    /\ rt \in {[IdleRt EXCEPT !.max429RetryCount = m, !.disable429Retry = d] :
                  m \in {Undefined} \cup 0..MaxConfigured, d \in BOOLEAN}
    /\ loop = IdleLoop

\* no call of the caller is in progress
CallIdle ==
    /\ lifecycle.pc = "idle"
    /\ \A r \in RequestIds : requests[r].pc \notin {"http", "responded"}

\* the caller holds a client: create() did not reject
ClientHeld == lifecycle.returned # "error"

IntegrationError == [name |-> "Error", code |-> 0, attempts |-> 0]

\* client.js: create(): validation, new AssetComputeClient, then register() up to
\* the call of assetCompute.register()
create(valid) ==
    /\ lifecycleCalls = 0
    /\ lifecycle = NoCall
    /\ \A r \in RequestIds : requests[r].pc = "none"
    /\ valid \in BOOLEAN
    /\ lifecycleCalls' = lifecycleCalls + 1
    /\ IF valid
       THEN /\ initialized' = TRUE
            /\ lifecycle' = [NoCall EXCEPT !.op = "create", !.pc = "http", !.calls = 1]
       ELSE /\ UNCHANGED initialized
            /\ lifecycle' = [NoCall EXCEPT !.op = "create", !.outcome = "failed",
                                           !.error = IntegrationError,
                                           !.returned = createReturns("create", "failed")]
    /\ UNCHANGED <<registered, journal, eventEmitter, pendingRenditions, listeners,
                   requests, delivered, waiters, waits, rt, loop, otherVars>>

\* the call of the client that is waiting for assetCompute.<op>()
CallAwaits(op) ==
    IF op = "process"
    THEN \E r \in RequestIds : requests[r].pc = "http"
    ELSE /\ lifecycle.pc = "http"
         /\ lifecycle.op \in (IF op = "register" THEN {"register", "create"}
                                                  ELSE {"unregister"})

\* assetcompute.js: register()/unregister()/process() called by the client: retry()
callRetry ==
    /\ rt.pc = "idle"
    /\ \E op \in Operations : CallAwaits(op) /\ retry(op)

\* client.js: `await this.assetCompute.<op>()` resumes with what retry() settled with
callSettles ==
    /\ rt.pc \in {"resolved", "rejected"}
    /\ LET status == IF rt.pc = "resolved" THEN 200 ELSE rt.last.status
       IN \/ lifecycleSettles(status, rt.payload, rt.error)
          \/ \E r \in RequestIds : processSettles(r, status, rt.payload, rt.error)
    /\ rt' = [rt EXCEPT !.pc = "idle"]
    /\ UNCHANGED <<loop, otherVars>>

NextCall ==
    \/ \E valid \in BOOLEAN : create(valid)
    \/ CallIdle /\ ClientHeld /\ register
    \/ CallIdle /\ ClientHeld /\ unregister
    \/ CallIdle /\ ClientHeld /\ \E n \in 1..MaxRenditions : process(n)
    \/ callRetry
    \/ invoke
    \/ \E status \in Statuses : retryInvoke(status)
    \/ callSettles
    \/ lifecycleFinish
    \/ \E r \in RequestIds : processReturn(r)

SpecCall == InitCall /\ [][NextCall]_vars

\* ===================================== error.js and the wait before a retry
MAX_RETRY_WAIT_TIME_MS == 60000
MIN_RETRY_WAIT_TIME_MS == 30000

\* a retry-after header: its characters, and the instant `new Date(header)` denotes
\* (NotADate: Invalid Date); NoHeader: headers.get('retry-after') is null
NotADate == -1
NoHeader == [string |-> FALSE, chars |-> <<>>, time |-> NotADate]
HeaderText(chars, time) == [string |-> TRUE, chars |-> chars, time |-> time]

Digits == {"0", "1", "2", "3", "4", "5", "6", "7", "8", "9"}
DigitValue(c) ==
    CASE c = "0" -> 0 [] c = "1" -> 1 [] c = "2" -> 2 [] c = "3" -> 3 [] c = "4" -> 4
      [] c = "5" -> 5 [] c = "6" -> 6 [] c = "7" -> 7 [] c = "8" -> 8 [] c = "9" -> 9

\* parseInt(num, 10): leading blanks, an optional sign, then the digits up to the
\* first character that is none; no digit there: NaN
RECURSIVE parseDigits(_, _, _)
parseDigits(chars, i, acc) ==
    IF i > Len(chars) \/ chars[i] \notin Digits
    THEN acc
    ELSE parseDigits(chars, i + 1, [any |-> TRUE, value |-> acc.value * 10 + DigitValue(chars[i])])

RECURSIVE skipBlanks(_, _)
skipBlanks(chars, i) ==
    IF i <= Len(chars) /\ chars[i] = " " THEN skipBlanks(chars, i + 1) ELSE i

parseInt(chars) ==
    LET start == skipBlanks(chars, 1)
        signed == start <= Len(chars) /\ chars[start] \in {"-", "+"}
        digits == parseDigits(chars, IF signed THEN start + 1 ELSE start,
                              [any |-> FALSE, value |-> 0])
    IN [isNaN |-> ~digits.any,
        value |-> IF signed /\ chars[start] = "-" THEN 0 - digits.value ELSE digits.value]

\* error.js: isStringifiedNumber: the parsed integer, or false
isStringifiedNumber(header) ==
    LET parsedRetryAfter == parseInt(header.chars)
    IN IF ~parsedRetryAfter.isNaN
       THEN [isFalse |-> FALSE, value |-> parsedRetryAfter.value]
       ELSE [isFalse |-> TRUE, value |-> 0]

\* error.js: isStringifiedDate: the Date, or false
isStringifiedDate(header) ==
    IF header.time # NotADate
    THEN [isFalse |-> FALSE, time |-> header.time]
    ELSE [isFalse |-> TRUE, time |-> 0]

\* Math.round(x / 1000) of a whole number x: the nearest integer, halves upwards
MathRoundSeconds(x) == (x + 500) \div 1000

\* error.js: TooManyRequestsError constructor: this.retryAfter
TooManyRequestsErrorRetryAfter(header, now) ==
    IF ~header.string
    THEN Undefined
    ELSE LET retryAfterAsNumber == isStringifiedNumber(header)
             retryAfterAsDate == isStringifiedDate(header)
         IN IF ~retryAfterAsNumber.isFalse
            THEN retryAfterAsNumber.value
            ELSE IF ~retryAfterAsDate.isFalse
            THEN LET timeTillRetrySeconds == MathRoundSeconds(retryAfterAsDate.time - now)
                 IN IF timeTillRetrySeconds > 0 THEN timeTillRetrySeconds ELSE 1
            ELSE Undefined

\* retry.js: retryWaitTime; randomSpan is Math.floor(Math.random() * 30001),
\* randomMs is Math.floor(Math.random() * 1000)
retryWaitTime(retryAfter, randomSpan, randomMs) ==
    IF ~Falsy(retryAfter) /\ IsNumber(retryAfter)
    THEN retryAfter * 1000 + randomMs
    ELSE randomSpan + MIN_RETRY_WAIT_TIME_MS

\* the instants Date.now() gives, in ms
Nows == {100000, 100300}

\* retry-after headers: whole numbers, a number followed by text, text, dates
\* written letter first ("Sun ..."), and dates written digit first ("02-20", "2027-01")
HeaderValues ==
    {NoHeader}
    \cup {HeaderText(c, NotADate) :
            c \in {<<"0">>, <<"1">>, <<"3">>, <<"3", "0">>, <<" ", "5">>, <<"3", "x">>,
                   <<"h", "i">>, <<>>}}
    \cup {HeaderText(<<"S", "u", "n">>, t) :
            t \in {98000, 100200, 100500, 100800, 101500, 101800, 103000}}
    \cup {HeaderText(<<"0", "2", "-", "2", "0">>, 0),
          HeaderText(<<"2", "0", "2", "7", "-", "0", "1">>, 103000)}

RandomSpans == {0, 15000, MAX_RETRY_WAIT_TIME_MS - MIN_RETRY_WAIT_TIME_MS}
RandomMs == {0, 500, 999}

InitError ==
    /\ InitClient
    /\ callsAllowed = MaxCalls
    /\ emitted = NoEmission
    /\ args = NoArgs
    /\ result = NoResult
    /\ rt = IdleRt
    /\ loop = IdleLoop

\* assetcompute.js: handleHttpResponseNotOk on a 429:
\* new TooManyRequestsError(errorMessage, response.headers.get('retry-after'))
newTooManyRequestsError(header, now) ==
    /\ rt.pc = "idle"
    /\ header \in HeaderValues
    /\ now \in Nows
    /\ rt' = [rt EXCEPT !.pc = "caught", !.error = TooManyRequestsError,
                        !.header = header, !.now = now,
                        !.retryAfter = TooManyRequestsErrorRetryAfter(header, now)]
    /\ UNCHANGED <<clientVars, loop, otherVars>>

\* retry.js: retryInvoke, `const ms = retryWaitTime(error.retryAfter)`
waitBeforeRetry(randomSpan, randomMs) ==
    /\ rt.pc = "caught"
    /\ randomSpan \in RandomSpans
    /\ randomMs \in RandomMs
    /\ rt' = [rt EXCEPT !.pc = "waiting",
                        !.ms = retryWaitTime(rt.retryAfter, randomSpan, randomMs)]
    /\ UNCHANGED <<clientVars, loop, otherVars>>

NextError ==
    \/ \E header \in HeaderValues, now \in Nows : newTooManyRequestsError(header, now)
    \/ \E randomSpan \in RandomSpans, randomMs \in RandomMs :
          waitBeforeRetry(randomSpan, randomMs)

SpecError == InitError /\ [][NextError]_vars

\* ============================================== AssetComputeClientRetry
\* what one call of super.register()/unregister()/process() ends with: ok, or an
\* Error whose message carries the HTTP status and the response body
Outcomes == {[ok |-> TRUE, status |-> 200, bodyHas429 |-> FALSE]} \cup
            [ok : {FALSE}, status : {429, 404, 500}, bodyHas429 : BOOLEAN]

\* e.message.includes("429")
messageIncludes429(outcome) == outcome.status = 429 \/ outcome.bodyHas429

ExhaustedError(retryCount) == [name |-> "Running into 429s", code |-> 0, attempts |-> retryCount]

\* AssetComputeClientRetry: constructor
loopMax429RetryCount(configured) ==
    IF Falsy(configured) THEN MAX_RETRY_ON_HTTP_429 ELSE configured

InitLoop ==
    /\ InitClient
    /\ callsAllowed = MaxCalls
    /\ emitted = NoEmission
    /\ args = NoArgs
    /\ result = NoResult
    /\ rt = IdleRt
    /\ loop \in {[IdleLoop EXCEPT !.max429RetryCount = loopMax429RetryCount(m)] :
                    m \in {Undefined} \cup 0..MaxConfigured}

loopContinues_lt(non429Response, retryCount, max) ==
    ~non429Response /\ retryCount < max

\* AssetComputeClientRetry: the loop condition of register/unregister/process
loopContinues(non429Response, retryCount, max) ==
    ~non429Response /\ retryCount <= max

\* AssetComputeClientRetry: what the call throws after the loop (NoError: it returns)
loopThrows(non429Response, retryCount, hasError, error) ==
    IF ~non429Response THEN ExhaustedError(retryCount)
    ELSE IF hasError THEN error ELSE NoError

\* AssetComputeClientRetry: register()/unregister()/process() called
loopCall(op) ==
    /\ loop.pc \in {"idle", "returned", "thrown"}
    /\ op \in Operations
    /\ loop' = [IdleLoop EXCEPT !.pc = "test", !.op = op,
                                !.max429RetryCount = loop.max429RetryCount]
    /\ UNCHANGED <<clientVars, rt, otherVars>>

\* AssetComputeClientRetry: the while test, then retryCount++ and the super call,
\* or the statements after the loop
loopTest ==
    /\ loop.pc = "test"
    /\ loop' = IF loopContinues(loop.non429Response, loop.retryCount, loop.max429RetryCount)
               THEN [loop EXCEPT !.pc = "call", !.retryCount = @ + 1, !.calls = @ + 1]
               ELSE LET e == loopThrows(loop.non429Response, loop.retryCount,
                                        loop.hasError, loop.error)
                    IN [loop EXCEPT !.pc = IF e = NoError THEN "returned" ELSE "thrown",
                                    !.thrown = e]
    /\ UNCHANGED <<clientVars, rt, otherVars>>

\* AssetComputeClientRetry: the try/catch around the super call, with the sleep
loopOutcome(outcome) ==
    /\ loop.pc = "call"
    /\ outcome \in Outcomes
    /\ loop' = IF outcome.ok
               THEN [loop EXCEPT !.pc = "test", !.non429Response = TRUE,
                                 !.only429 = FALSE]
               ELSE IF messageIncludes429(outcome)
               THEN [loop EXCEPT !.pc = "test", !.non429Response = FALSE,
                                 !.only429 = @ /\ outcome.status = 429]
               ELSE [loop EXCEPT !.pc = "test", !.non429Response = TRUE,
                                 !.hasError = TRUE, !.error = GenericError(outcome.status),
                                 !.only429 = FALSE]
    /\ UNCHANGED <<clientVars, rt, otherVars>>

NextLoop ==
    \/ \E op \in Operations : loopCall(op)
    \/ loopTest
    \/ \E outcome \in Outcomes : loopOutcome(outcome)

SpecLoop == InitLoop /\ [][NextLoop]_vars

\* ===================================== the client on the shared event stream
\* the journal is shared: it also carries events stamped by other clients and
\* events whose stamp was lost, and the subscription reports polling errors
\* no process() call was made since the last registration: no subscription yet
NoBatch == eventEmitter = NoEmitter

\* journalDelivers, what the client emits being recorded
streamEvent(r, i, shape) ==
    /\ journalDelivers(r, i, shape)
    /\ emitted' = forwardEmits(NextEvent(r, i, shape))

\* the ids an event of the journal can carry that are not this client's: the id
\* of another client, and none (event.userData or its assetComputeClient absent)
ForeignIds == {OtherId, Undefined}

\* the journal delivers an event that does not carry this client's id; it may
\* name any request and any rendition
streamForeign(r, i, cid) ==
    /\ eventEmitter # NoEmitter /\ eventEmitter.open
    /\ r \in RequestIds
    /\ i \in 0..(MaxRenditions - 1)
    /\ cid \in ForeignIds
    /\ LET event == MakeEvent(RenditionOutcome(i), r, cid, i, MaxRenditions, "ok", 0)
       IN /\ forwardEvent(event)
          /\ emitted' = forwardEmits(event)
    /\ UNCHANGED <<registered, journal, initialized, eventEmitter, lifecycle, requests,
                   delivered, lifecycleCalls, rt, loop, callsAllowed, args, result>>

\* client.js: this.eventEmitter.on('error', error => self.emit("error", error)),
\* run for a polling error of the subscription
streamError ==
    /\ eventEmitter # NoEmitter /\ eventEmitter.open
    /\ LET onError == emitError(listeners)
       IN emitted' = [NoEmission EXCEPT !.cause = "error", !.errors = 1, !.logged = onError.logged,
                                        !.handled = onError.handled,
                                        !.thrown = onError.thrown, !.erred = TRUE,
                                        !.order = <<"error">>]
    /\ UNCHANGED <<clientVars, rt, loop, callsAllowed, args, result>>

\* the consumer puts an 'error' listener of their own on the client
onError ==
    /\ listeners.onError = 0
    /\ listeners' = [listeners EXCEPT !.onError = 1]
    /\ UNCHANGED <<registered, journal, initialized, eventEmitter, pendingRenditions,
                   lifecycle, requests, delivered, waiters, waits, lifecycleCalls,
                   rt, loop, otherVars>>

NextStream ==
    \/ register
    \/ unregister
    \/ lifecycleResponse(200)
    \/ lifecycleFinish
    \/ close
    \/ NoBatch /\ \E n \in 1..MaxRenditions : process(n)
    \/ \E r \in RequestIds : processResponse(r, 200)
    \/ \E r \in RequestIds : processReturn(r)
    \/ \E r \in RequestIds, i \in 0..(MaxRenditions - 1) : streamEvent(r, i, "ok")
    \/ \E r \in RequestIds, i \in 0..(MaxRenditions - 1), cid \in ForeignIds :
          streamForeign(r, i, cid)
    \/ streamError
    \/ onError
    \/ \E r \in RequestIds : waitActivation(r)
    \/ wait

\* one batch per registration, every call answered with 200, no timer running out
SpecStream == Init /\ [][NextStream]_vars

\* ===================== several registrations, batches and waits of one client
InitSessions ==
    /\ InitClient
    /\ rt = IdleRt
    /\ loop = IdleLoop
    /\ callsAllowed = MaxSessionCalls
    /\ emitted = NoEmission
    /\ args = NoArgs
    /\ result = NoResult

\* no waitActivation() call was made for the request yet
Unawaited(r) == \A w \in WaiterIds : waiters[w].state = "unused" \/ waiters[w].requestId # r

NextSessions ==
    \/ CallIdle /\ register
    \/ lifecycleResponse(200)
    \/ lifecycleFinish
    \/ CallIdle /\ \E n \in 1..MaxRenditions : process(n)
    \/ \E r \in RequestIds : processResponse(r, 200)
    \/ \E r \in RequestIds : processReturn(r)
    \/ \E r \in RequestIds, i \in 0..(MaxRenditions - 1) :
          delivered[r][i] = 0 /\ deliverEvent(r, i, "ok")
    \/ CallIdle /\ \E r \in RequestIds : Unawaited(r) /\ waitActivation(r)
    \/ \E w \in WaiterIds : waitActivationTimeout(w)

\* a caller that awaits each call before the next, every call answered with 200,
\* one waitActivation() per request, the journal delivering each event once
SpecSessions == InitSessions /\ [][NextSessions]_vars

\* ============================================ what process() sends
\* JavaScript objects: functions from their own keys to values; a value is a
\* caller's datum, the {index, length} stamp of a rendition, or the {id} stamp
Val(v) == [tag |-> "value", a |-> v, b |-> 0]
IndexStamp(index, length) == [tag |-> "assetComputeClient", a |-> index, b |-> length]
IdStamp(id) == [tag |-> "assetComputeClient.id", a |-> id, b |-> 0]

EmptyObject == [k \in {} |-> Val(0)]
ObjectsOver(keys) == UNION {[ks -> {Val(7)}] : ks \in SUBSET keys}

\* { ...object, key: value }; spreading undefined adds nothing
SpreadWith(present, object, key, value) ==
    LET own == IF present THEN DOMAIN object ELSE {}
    IN [k \in own \cup {key} |-> IF k = key THEN value ELSE object[k]]

\* a rendition: its fields other than userData, and its userData if it has one
Renditions ==
    [fields : ObjectsOver({"fmt", "name"}),
     hasUserData : {FALSE},
     userData : {EmptyObject}]
    \cup [fields : ObjectsOver({"fmt", "name"}),
          hasUserData : {TRUE},
          userData : ObjectsOver({"path", "assetComputeClient"})]

\* the userData argument of process(): undefined, or an object
UserDatas ==
    {[present |-> FALSE, object |-> EmptyObject]}
    \cup {[present |-> TRUE, object |-> o] : o \in ObjectsOver({"asset", "assetComputeClient"})}

RenditionArrays == UNION {[1..n -> Renditions] : n \in 0..MaxRenditions}

stampRendition_bare(rendition, index, length) ==
    [fields |-> rendition.fields,
     hasUserData |-> TRUE,
     userData |-> SpreadWith(FALSE, rendition.userData, "assetComputeClient",
                             IndexStamp(index, length))]

\* client.js: process(), the callback of renditions.map
stampRendition(rendition, index, length) ==
    [fields |-> rendition.fields,
     hasUserData |-> TRUE,
     userData |-> SpreadWith(rendition.hasUserData, rendition.userData, "assetComputeClient",
                             IndexStamp(index, length))]

\* client.js: process(), renditions = renditions.map(...)
stampRenditions(renditions) ==
    [i \in 1..Len(renditions) |-> stampRendition(renditions[i], i - 1, Len(renditions))]

\* client.js: process(), userData = { ...userData, assetComputeClient: { id: this.id } }
stampUserData(userData) ==
    [present |-> TRUE,
     object |-> SpreadWith(userData.present, userData.object, "assetComputeClient",
                           IdStamp(MyId))]

\* assetcompute.js: process(), the body of the POST: options.renditions and
\* options.userData of the options built from the arguments
processBody(renditions, userData) == [renditions |-> renditions, userData |-> userData]

InitStamp ==
    /\ InitClient
    /\ rt = IdleRt
    /\ loop = IdleLoop
    /\ callsAllowed = MaxCalls
    /\ emitted = NoEmission
    /\ args \in [kind : {"process"}, renditions : RenditionArrays, userData : UserDatas]
    /\ result = NoResult

\* client.js: process() from the stamping to the request; map and the object
\* literals build new objects, nothing is assigned into the caller's
processSends ==
    /\ args.kind = "process"
    /\ result = NoResult
    /\ result' = [kind |-> "sent",
                  body |-> processBody(stampRenditions(args.renditions),
                                       stampUserData(args.userData)),
                  given |-> args]
    /\ UNCHANGED <<clientVars, rt, loop, callsAllowed, emitted, args>>

NextStamp == processSends

SpecStamp == InitStamp /\ [][NextStamp]_vars

\* ============================== the validation of the integration descriptor
\* a descriptor as the validation sees it: present (not null/undefined), TYPE,
\* which of the four identity fields are strings, CLIENT_SECRETS and SCOPES as
\* NotArray (not an array) or the array's length, and whether metascopes and
\* technicalAccount are truthy
NotArray == -1
ArrayShapes == {NotArray} \cup (0..MaxArray)
IntegrationTypes == {"oauthservertoserver", "other", "none"}
Integrations ==
    [present : BOOLEAN, TYPE : IntegrationTypes,
     ORG_ID : BOOLEAN, CLIENT_ID : BOOLEAN,
     TECHNICAL_ACCOUNT_ID : BOOLEAN, TECHNICAL_ACCOUNT_EMAIL : BOOLEAN,
     CLIENT_SECRETS : ArrayShapes, SCOPES : ArrayShapes,
     metascopes : BOOLEAN, technicalAccount : BOOLEAN]

OAuthDetailsRequired == "Asset Compute OAuth Server-to-server integration details are required"
DetailsRequired == "Asset Compute integration details are required"
NothingThrown == "none"

\* oauthservertoserver.js: isOAuthServerToServerIntegration
isOAuthServerToServerIntegration(integration) ==
    IF integration.present THEN integration.TYPE = "oauthservertoserver" ELSE FALSE

\* oauthservertoserver.js: validateOAuthServerToServerIntegration
validateOAuthServerToServerIntegration(integration) ==
    IF integration.present
    THEN /\ integration.ORG_ID
         /\ integration.CLIENT_SECRETS # NotArray /\ integration.CLIENT_SECRETS > 0
         /\ integration.CLIENT_ID
         /\ integration.SCOPES # NotArray /\ integration.SCOPES > 0
         /\ integration.TECHNICAL_ACCOUNT_ID
         /\ integration.TECHNICAL_ACCOUNT_EMAIL
    ELSE FALSE

\* client.js: `!integration || !integration.metascopes || !integration.technicalAccount`
lacksJwtDetails(integration) ==
    \/ ~integration.present
    \/ ~integration.metascopes
    \/ ~integration.technicalAccount

\* client.js: constructor, "validate integration": what it throws
constructorThrows(integration) ==
    IF isOAuthServerToServerIntegration(integration)
    THEN IF ~validateOAuthServerToServerIntegration(integration)
         THEN OAuthDetailsRequired
         ELSE NothingThrown
    ELSE IF lacksJwtDetails(integration)
    THEN DetailsRequired
    ELSE NothingThrown

\* client.js: create(), "validate integration", then the constructor: what it
\* throws before register() is called
createThrows(integration) ==
    IF /\ isOAuthServerToServerIntegration(integration)
       /\ ~validateOAuthServerToServerIntegration(integration)
    THEN OAuthDetailsRequired
    ELSE IF lacksJwtDetails(integration)
    THEN DetailsRequired
    ELSE constructorThrows(integration)

InitIntegration ==
    /\ InitClient
    /\ rt = IdleRt
    /\ loop = IdleLoop
    /\ callsAllowed = MaxCalls
    /\ emitted = NoEmission
    /\ args \in [kind : {"integration"}, integration : Integrations]
    /\ result = NoResult

\* new AssetComputeClient(integration), followed by register() if it did not throw
constructs ==
    /\ args.kind = "integration"
    /\ result = NoResult
    /\ result' = [kind |-> "constructor", threw |-> constructorThrows(args.integration)]
    /\ UNCHANGED <<clientVars, rt, loop, callsAllowed, emitted, args>>

\* AssetComputeClient.create(integration) up to its call of register()
creates ==
    /\ args.kind = "integration"
    /\ result = NoResult
    /\ result' = [kind |-> "create", threw |-> createThrows(args.integration)]
    /\ UNCHANGED <<clientVars, rt, loop, callsAllowed, emitted, args>>

NextIntegration == constructs \/ creates

SpecIntegration == InitIntegration /\ [][NextIntegration]_vars

\* ============================= events whose stamp the service did not echo
\* the caller has called waitActivation() for every request process() returned
AllAwaited == \A r \in RequestIds : requests[r].pc = "done" => ~Unawaited(r)

NextMalformed ==
    \/ ~registered /\ CallIdle /\ register
    \/ lifecycleResponse(200)
    \/ CallIdle /\ AllAwaited /\ \E n \in 1..MaxRenditions : process(n)
    \/ \E r \in RequestIds : processResponse(r, 200)
    \/ \E r \in RequestIds : processReturn(r)
    \/ \E r \in RequestIds, i \in 0..(MaxRenditions - 1), shape \in EventShapes :
          delivered[r][i] = 0 /\ streamEvent(r, i, shape)
    \/ CallIdle /\ \E r \in RequestIds : Unawaited(r) /\ waitActivation(r)

\* one registration, a caller that awaits each call before the next and calls
\* waitActivation() once for a request before it submits the next (README.md,
\* usage), the journal delivering each event once, with
\* the stamp of its rendition echoed in full, in part or not at all
SpecMalformed == InitSessions /\ [][NextMalformed]_vars

\* ================= the options object of AssetComputeClientWithRetry
\* this.options as far as the retry budget goes: max429RetryCount (Undefined
\* when the key is absent or was given no value) and whether the object
\* carries the keys source, renditions, userData of a process() call

\* client-retry.js: AssetComputeClientWithRetry, constructor:
\* Object.assign(this.options || {}, { max429RetryCount: options && options.max429RetryCount })
constructedOptions(configured) == [max429RetryCount |-> configured, callData |-> FALSE]

\* client-retry.js: register()/unregister() pass clone(this.options), process()
\* passes Object.assign(this.options || {}, {source, renditions, userData}),
\* which is this.options itself: the object retry() is given
callOptions(op, options) ==
    IF op = "process" THEN [options EXCEPT !.callData = TRUE] ELSE options

\* client-retry.js: retry(), retryOpts.max429RetryCount
retryBudget(options) ==
    IF Falsy(options.max429RetryCount) THEN MAX_RETRY_ON_HTTP_429 ELSE options.max429RetryCount

\* client-retry.js: filterOptions, `delete options.max429RetryCount`
filterOptions(options) == [options EXCEPT !.max429RetryCount = Undefined]

\* client-retry.js: this.options after a call: register()/unregister() worked
\* on a clone, process() on this.options itself
optionsAfter(op, options) ==
    IF op = "process" THEN filterOptions(callOptions(op, options)) ELSE options

InitOptions ==
    /\ InitClient
    /\ rt = IdleRt
    /\ loop = IdleLoop
    /\ callsAllowed = MaxCalls
    /\ emitted = NoEmission
    /\ \E configured \in {Undefined} \cup (0..MaxConfigured) :
          args = [kind |-> "options", configured |-> configured,
                  options |-> constructedOptions(configured)]
    /\ result = [kind |-> "calls", ops |-> <<>>, budgets |-> <<>>]

\* client-retry.js: register(), unregister() or process() up to retryInvoke
withRetryCall(op) ==
    /\ args.kind = "options"
    /\ Len(result.ops) < callsAllowed
    /\ op \in Operations
    /\ result' = [result EXCEPT !.ops = Append(@, op),
                                !.budgets = Append(@, retryBudget(callOptions(op, args.options)))]
    /\ args' = [args EXCEPT !.options = optionsAfter(op, args.options)]
    /\ UNCHANGED <<clientVars, rt, loop, callsAllowed, emitted>>

NextOptions == \E op \in Operations : withRetryCall(op)

SpecOptions == InitOptions /\ [][NextOptions]_vars

\* =================================== events with any numeric index and length
\* the values of a stamp's length that are numbers
StampLengths == 0..MaxRenditions

InitSlots ==
    /\ InitClient
    /\ rt = IdleRt
    /\ loop = IdleLoop
    /\ callsAllowed = MaxCalls
    /\ emitted = NoEmission
    /\ args = NoArgs
    /\ result = [kind |-> "stamped", events |-> 0]

\* the journal delivers an event of request r whose rendition carries a stamp
\* with numbers for index and length, whatever their values; the handler of
\* the subscription runs
deliverStamped(r, index, length) ==
    /\ eventEmitter # NoEmitter /\ eventEmitter.open
    /\ requests[r].pc \in {"responded", "done"}
    /\ result.events < MaxEvents
    /\ index \in IndexDomain
    /\ length \in StampLengths
    /\ forwardEvent(MakeEvent(RenditionOutcome(index), r, MyId, index, length, "ok",
                              result.events + 1))
    /\ result' = [result EXCEPT !.events = @ + 1]
    /\ UNCHANGED <<registered, journal, initialized, eventEmitter, lifecycle, requests,
                   delivered, lifecycleCalls, rt, loop, callsAllowed, emitted, args>>

NextSlots ==
    \/ ~registered /\ CallIdle /\ register
    \/ lifecycleResponse(200)
    \/ CallIdle /\ \E n \in 1..MaxRenditions : process(n)
    \/ \E r \in RequestIds : processResponse(r, 200)
    \/ \E r \in RequestIds : processReturn(r)
    \/ CallIdle /\ \E r \in RequestIds : Unawaited(r) /\ waitActivation(r)
    \/ \E r \in RequestIds, index \in IndexDomain, length \in StampLengths :
          deliverStamped(r, index, length)

SpecSlots == InitSlots /\ [][NextSlots]_vars

\* ============================================ AssetCompute.process(), the body
\* what an argument of process() can be: nothing, a source (URL or object),
\* an array, an object
NoValue == "undefined"
ArgValues == {NoValue, "source", "arrayA", "arrayB", "object"}
isArray(value) == value \in {"arrayA", "arrayB"}

\* assetcompute.js: process(), `const options = { source, renditions, userData, ... }`
processOptions(source, renditions, userData) ==
    [source |-> source, renditions |-> renditions, userData |-> userData]

\* assetcompute.js: process(), `if (Array.isArray(source)) { ... }` inside the
\* function given to retry(): it assigns the parameters of process()
swapArguments(closure) ==
    IF isArray(closure.source)
    THEN [source |-> NoValue, renditions |-> closure.source, userData |-> closure.renditions]
    ELSE closure

\* assetcompute.js: process(), the body of the POST: built from the options
\* retry() passes to the function, not from the parameters
postBody(options, closure) ==
    [source |-> options.source, renditions |-> options.renditions,
     userData |-> options.userData]

InitBody ==
    /\ InitClient
    /\ rt = IdleRt
    /\ loop = IdleLoop
    /\ callsAllowed = MaxCalls
    /\ emitted = NoEmission
    /\ \E source \in ArgValues, renditions \in ArgValues, userData \in ArgValues :
          args = [kind |-> "body", source |-> source, renditions |-> renditions,
                  userData |-> userData,
                  options |-> processOptions(source, renditions, userData)]
    /\ result = [kind |-> "posts", attempts |-> 0,
                 closure |-> processOptions(args.source, args.renditions, args.userData),
                 body |-> processOptions(NoValue, NoValue, NoValue)]

\* assetcompute.js: process(), one run of the function given to retry() up to
\* fetch: the first attempt, or a retry after a 429
postAttempt ==
    /\ args.kind = "body"
    /\ result.attempts < callsAllowed
    /\ LET closure == swapArguments(result.closure)
       IN result' = [result EXCEPT !.attempts = @ + 1,
                                   !.closure = closure,
                                   !.body = postBody(args.options, closure)]
    /\ UNCHANGED <<clientVars, rt, loop, callsAllowed, emitted, args>>

NextBody == postAttempt

SpecBody == InitBody /\ [][NextBody]_vars

\* =============================================== integrationConfiguration.js
\* two calls of getIntegrationConfiguration, call c being given the integration
\* file and the private-key file of path c
ConfigCalls == {1, 2}
NoPath == 0
\* an integration file is JSON, YAML, or not there; a key file is there or not
FileKinds == {"json", "yaml", "missing"}
NoOutcome == [state |-> "none", integration |-> NoPath, privateKey |-> NoPath]
MissingFiles == [state |-> "missing required files", integration |-> NoPath,
                 privateKey |-> NoPath]
NoData == [state |-> "no data", integration |-> NoPath, privateKey |-> NoPath]
Configuration(integration, privateKey) ==
    [state |-> "configuration", integration |-> integration, privateKey |-> privateKey]
\* pc: the await the call is at; target: the path handed to the pending fs call
NoConfigCall == [pc |-> "none", target |-> NoPath, json |-> NoPath, outcome |-> NoOutcome]

InitConfig ==
    /\ InitClient
    /\ rt = IdleRt
    /\ loop = IdleLoop
    /\ callsAllowed = MaxCalls
    /\ emitted = NoEmission
    /\ args \in [kind : {"config"}, integrationFiles : [ConfigCalls -> FileKinds],
                 keyFiles : [ConfigCalls -> BOOLEAN]]
    /\ result = [kind |-> "config", integrationPath |-> NoPath, privateKeyPath |-> NoPath,
                 calls |-> [c \in ConfigCalls |-> NoConfigCall]]

\* integrationConfiguration.js: getIntegrationConfiguration(integrationFile,
\* privateKeyFile): both module variables assigned, then validate() up to
\* `await fs.pathExists(integrationPath)`
getIntegrationConfiguration(c) ==
    /\ args.kind = "config"
    /\ result.calls[c].pc = "none"
    /\ result' = [result EXCEPT !.integrationPath = c, !.privateKeyPath = c,
                                !.calls[c].pc = "pathExists", !.calls[c].target = c]
    /\ UNCHANGED <<clientVars, rt, loop, callsAllowed, emitted, args>>

\* validate(): after pathExists; validateJson() up to `await fs.readJson(integrationPath)`
validate(c) ==
    /\ args.kind = "config"
    /\ result.calls[c].pc = "pathExists"
    /\ result' = IF args.integrationFiles[result.calls[c].target] = "missing"
                 THEN [result EXCEPT !.calls[c].pc = "rejected",
                                     !.calls[c].outcome = MissingFiles]
                 ELSE [result EXCEPT !.calls[c].pc = "readJson",
                                     !.calls[c].target = result.integrationPath]
    /\ UNCHANGED <<clientVars, rt, loop, callsAllowed, emitted, args>>

\* validateJson(): after readJson; on success validatePrivateKeyFile() up to
\* `await fs.pathExists(privateKeyPath)`, on failure validateYaml() up to
\* `await fs.readFile(integrationPath, 'utf8')`
validateJson(c) ==
    /\ args.kind = "config"
    /\ result.calls[c].pc = "readJson"
    /\ result' = IF args.integrationFiles[result.calls[c].target] = "json"
                 THEN [result EXCEPT !.calls[c].pc = "keyExists",
                                     !.calls[c].json = result.calls[c].target,
                                     !.calls[c].target = result.privateKeyPath]
                 ELSE [result EXCEPT !.calls[c].pc = "readYaml",
                                     !.calls[c].target = result.integrationPath]
    /\ UNCHANGED <<clientVars, rt, loop, callsAllowed, emitted, args>>

\* validatePrivateKeyFile(): after pathExists, up to `fs.readFile(privateKeyPath, 'utf8')`
validatePrivateKeyFile(c) ==
    /\ args.kind = "config"
    /\ result.calls[c].pc = "keyExists"
    /\ result' = IF ~args.keyFiles[result.calls[c].target]
                 THEN [result EXCEPT !.calls[c].pc = "rejected",
                                     !.calls[c].outcome = MissingFiles]
                 ELSE [result EXCEPT !.calls[c].pc = "readKey",
                                     !.calls[c].target = result.privateKeyPath]
    /\ UNCHANGED <<clientVars, rt, loop, callsAllowed, emitted, args>>

\* validateJson(): after the key was read: mapConfiguration(json); validate()
\* returns the data (a key file that is not there makes readFile reject)
mapConfiguration(c) ==
    /\ args.kind = "config"
    /\ result.calls[c].pc = "readKey"
    /\ result' = IF ~args.keyFiles[result.calls[c].target]
                 THEN [result EXCEPT !.calls[c].pc = "rejected",
                                     !.calls[c].outcome = MissingFiles]
                 ELSE [result EXCEPT !.calls[c].pc = "resolved",
                                     !.calls[c].outcome =
                                         Configuration(result.calls[c].json,
                                                       result.calls[c].target)]
    /\ UNCHANGED <<clientVars, rt, loop, callsAllowed, emitted, args>>

\* validateYaml(): after readFile: the YAML document, or undefined, on which
\* validateData() throws
validateYaml(c) ==
    /\ args.kind = "config"
    /\ result.calls[c].pc = "readYaml"
    /\ result' = IF args.integrationFiles[result.calls[c].target] = "yaml"
                 THEN [result EXCEPT !.calls[c].pc = "resolved",
                                     !.calls[c].outcome =
                                         Configuration(result.calls[c].target, NoPath)]
                 ELSE [result EXCEPT !.calls[c].pc = "rejected",
                                     !.calls[c].outcome = NoData]
    /\ UNCHANGED <<clientVars, rt, loop, callsAllowed, emitted, args>>

NextConfig ==
    \E c \in ConfigCalls :
        \/ getIntegrationConfiguration(c)
        \/ validate(c)
        \/ validateJson(c)
        \/ validatePrivateKeyFile(c)
        \/ mapConfiguration(c)
        \/ validateYaml(c)

SpecConfig == InitConfig /\ [][NextConfig]_vars

\* ================================================================= claims
Settled == {"resolved", "rejected"}
DoneRequests == {r \in RequestIds : requests[r].pc = "done"}

\* C1: whenever the client is not registered, a process() call is rejected with
\* the 'Must call register before calling /process' error, sends no HTTP request,
\* and leaves _registered, the event subscription and pendingRenditions as they were.
C1_ProcessNeedsRegister ==
    [][\A n \in 1..MaxRenditions :
          (~registered /\ process(n)) =>
              /\ \E r \in RequestIds :
                    /\ requests[r].pc = "none"
                    /\ requests'[r].pc = "rejected"
                    /\ requests'[r].error = MustRegisterError
                    /\ requests'[r].calls = 0
                    /\ \A q \in RequestIds \ {r} : requests'[q] = requests[q]
              /\ lifecycle' = lifecycle
              /\ registered' = registered
              /\ eventEmitter' = eventEmitter
              /\ listeners' = listeners
              /\ pendingRenditions' = pendingRenditions]_vars

\* a process() call was rejected after a successful unregister()
C1_Witness ==
    /\ ~registered
    /\ lifecycle.op = "unregister" /\ lifecycle.outcome = "ok"
    /\ \E r \in RequestIds : requests[r].pc = "rejected" /\ requests[r].calls = 0

\* the array waitActivation resolves with holds, for a batch of n, exactly the
\* event stamped i at every position i of 0..n-1
OrderedResult(w) ==
    LET r == waiters[w].requestId
        n == requests[r].n
        c == waiters[w].context
    IN /\ c.hasEvents /\ c.length = n
       /\ \A i \in IndexDomain :
            IF i \in 0..(n - 1)
            THEN c.slots[i].requestId = r /\ c.slots[i].index = i /\ c.slots[i].length = n
            ELSE c.slots[i] = NoEvent

\* C2: a waitActivation(requestId) called before any event of the request was
\* delivered, once each of the N events has been delivered exactly once (in any
\* order), has resolved with an array of length N whose position i holds the event
\* stamped with index i; the only other outcomes are the timeout and the rejection
\* on an event that lacks its stamp.
C2_ResolvesInOrder ==
    \A w \in WaiterIds :
        /\ waiters[w].state = "resolved" => OrderedResult(w)
        /\ ( /\ waiters[w].state # "unused"
             /\ waiters[w].missed = 0
             /\ \A i \in 0..(requests[waiters[w].requestId].n - 1) :
                    delivered[waiters[w].requestId][i] = 1 )
           => \/ waiters[w].state = "resolved"
              \/ /\ waiters[w].state = "rejected"
                 /\ waiters[w].error \in {"timed out", "expect userData", "expect index",
                                          "expect length"}

\* a batch of two resolved although the event of index 1 came first
C2_Witness ==
    \E w \in WaiterIds :
        /\ waiters[w].state = "resolved"
        /\ requests[waiters[w].requestId].n = 2
        /\ waiters[w].context.slots[1].seq = 1
        /\ waiters[w].context.slots[0].seq = 1
        /\ waiters[w].missed = 0

\* C3 (as claimed): the counter is never negative as long as every delivered event
\* belongs to a submitted rendition and none is delivered twice.
C3_NeverNegative ==
    (\A r \in RequestIds, i \in 0..(MaxRenditions - 1) : delivered[r][i] <= 1)
        => pendingRenditions >= 0

\* C4: the counter is the sum of N over the process() calls that returned
\* successfully minus the number of events delivered with this client's id; a
\* failed or rejected process() call contributes nothing.
C4_Accounting ==
    pendingRenditions =
        SumOver([r \in RequestIds |-> IF r \in DoneRequests THEN requests[r].n ELSE 0],
                RequestIds)
        - EventsDelivered

\* two successful batches, one failed call, every event delivered exactly once:
\* the counter is back at 0
C4_Witness ==
    /\ pendingRenditions = 0
    /\ Cardinality(DoneRequests) = 2
    /\ \A r \in DoneRequests : \A i \in 0..(requests[r].n - 1) : delivered[r][i] = 1

\* C5: once a waitActivation() promise has settled (resolved, rejected on a
\* malformed or duplicate event, or timed out), neither of its two listeners is on
\* the client and its timer is cancelled, whatever happens later leaves it as it
\* is, and what it resolved with is a complete array.
C5_WaitActivationCleansUp ==
    /\ [](\A w \in WaiterIds :
            waiters[w].state \in Settled =>
                /\ w \notin listeners.rendition_created
                /\ w \notin listeners.rendition_failed
                /\ ~waiters[w].timer
                /\ (waiters[w].state = "resolved" => waiters[w].context.pendingEvents = 0))
    /\ [][\A w \in WaiterIds :
            waiters[w].state \in Settled => waiters'[w] = waiters[w]]_vars

\* a wait that timed out holding one of two events, and the second event was
\* delivered afterwards
C5_Witness ==
    \E w \in WaiterIds :
        /\ waiters[w].state = "rejected" /\ waiters[w].error = "timed out"
        /\ waiters[w].context.pendingEvents = 1
        /\ waiters[w].missed = 0
        /\ \A i \in 0..1 : delivered[waiters[w].requestId][i] = 1

\* C6 (as claimed): after a wait() promise has settled, by 'drained' or by
\* timeout, no 'drained' listener of that call is attached to the client.
C6_DrainedListenerRemoved ==
    \A k \in WaitIds :
        waits[k].state \in Settled =>
            \A fn \in {"listener", "resolve"} : <<k, fn>> \notin listeners.drained

\* the delivery of this step took the counter to 0: 'drained' is emitted
DrainedEmitted == pendingRenditions = 1 /\ pendingRenditions' = 0

\* C7: wait() resolves at once, with no timer and no listener, when the counter
\* is 0; when the counter is positive it stays pending until the next 'drained',
\* which resolves it, or its timeout, which rejects it with 'Timed out'; a settled
\* wait never changes.
C7_Wait ==
    [][\A k \in WaitIds :
        /\ (waits[k].state = "unused" /\ waits'[k].state # "unused" /\ pendingRenditions = 0)
              => /\ waits'[k] = [NoWait EXCEPT !.state = "resolved", !.how = "immediate"]
                 /\ listeners' = listeners
        /\ (waits[k].state = "unused" /\ waits'[k].state # "unused" /\ pendingRenditions > 0)
              => /\ waits'[k].state = "pending" /\ waits'[k].timer
        /\ (waits[k].state = "pending" /\ DrainedEmitted)
              => /\ waits'[k].state = "resolved" /\ ~waits'[k].timer
        /\ (waits[k].state = "pending" /\ waitTimeout(k))
              => /\ waits'[k].state = "rejected" /\ waits'[k].how = "timed out"
                 /\ ~waits'[k].timer
        /\ (waits[k].state = "pending" /\ ~DrainedEmitted /\ ~waitTimeout(k))
              => waits'[k] = waits[k]
        /\ waits[k].state \in Settled => waits'[k] = waits[k]]_vars

\* a wait() made with renditions pending was resolved by 'drained'
C7_Witness ==
    \E k \in WaitIds : waits[k].state = "resolved" /\ waits[k].how = "drained"

\* C8: a second well-formed event for a (requestId, index) whose slot a pending
\* waitActivation has already filled rejects it with the duplicate-event error
\* and leaves the stored slot as it was.
C8_DuplicateRejects ==
    [][\A r \in RequestIds, i \in 0..(MaxRenditions - 1), w \in WaiterIds :
          ( /\ waiters[w].state = "pending"
            /\ waiters[w].requestId = r
            /\ waiters[w].context.slots[i] # NoEvent
            /\ deliverEvent(r, i, "ok") )
          => /\ waiters'[w].state = "rejected"
             /\ waiters'[w].error = "duplicate event"
             /\ waiters'[w].context.slots[i] = waiters[w].context.slots[i]]_vars

\* a waitActivation rejected on the second delivery of an event, still holding
\* the first one
C8_Witness ==
    \E w \in WaiterIds :
        /\ waiters[w].state = "rejected" /\ waiters[w].error = "duplicate event"
        /\ \E i \in 0..(MaxRenditions - 1) :
              /\ delivered[waiters[w].requestId][i] = 2
              /\ waiters[w].context.slots[i].seq = 1

RtInFlight == rt.pc \in {"scheduled", "fetch"}
RtSettled == rt.pc \in {"resolved", "rejected"}

\* C9: with retry enabled and max429RetryCount = m >= 1, a call of register,
\* process or unregister never sends more than m + 1 requests, a call that is
\* rejected with the rate-limit error has sent exactly m + 1, and every call settles.
C9_AttemptsBounded ==
    /\ []((~rt.disable429Retry /\ IsNumber(rt.max429RetryCount) /\ rt.max429RetryCount >= 1)
            => /\ rt.calls <= rt.max429RetryCount + 1
               /\ (rt.pc = "rejected" /\ rt.error = TooManyRequestsError)
                     => rt.calls = rt.max429RetryCount + 1)
    /\ (RtInFlight ~> RtSettled)

\* max429RetryCount = 2: the call was rejected after three 429 responses
C9_Witness ==
    /\ rt.pc = "rejected" /\ rt.error = TooManyRequestsError
    /\ ~rt.disable429Retry /\ rt.max429RetryCount = 2 /\ rt.calls = 3

RtExhausted ==
    /\ rt.pc = "rejected"
    /\ ~rt.retryOpts.disable429Retry
    /\ rt.last.status = 429
    /\ rt.calls = rt.retryOpts.max429RetryCount + 1

\* C11: when the budget of the retry() engine is exhausted, the promise is
\* rejected with the error the last attempt threw: a TooManyRequestsError, code
\* 429, whose message carries the status 429 and the body of the last response;
\* it is not an error created by the engine.
C11_RejectsWithLastError ==
    RtExhausted
        => /\ rt.error = TooManyRequestsError
           /\ rt.error.code = 429
           /\ rt.message = errorMessage(rt.op, 429, rt.last.body)

\* max429RetryCount = 1: process() rejected after two 429 responses, with the
\* error made from the second
C11_Witness ==
    /\ RtExhausted
    /\ rt.op = "process" /\ rt.max429RetryCount = 1 /\ rt.calls = 2
    /\ rt.message = errorMessage("process", 429, 2)

RetryOn == ~rt.retryOpts.disable429Retry /\ rt.retryOpts.max429RetryCount >= 1

\* the engine's call was answered 429, then 200
RtSecondSucceeded ==
    /\ RetryOn
    /\ rt.first.status = 429 /\ rt.last.status = 200 /\ rt.calls = 2

\* the requests the caller has seen succeed
AcceptedRenditions == SumOver([r \in RequestIds |-> requests[r].n], DoneRequests)

\* C12: with max429RetryCount >= 1, a first attempt answered 429 is retried and a
\* second answered 200 settles the call: it resolves with the payload of the
\* second response after exactly 2 network calls, and the client is updated as
\* for a success without retry: register sets _registered and the journal,
\* unregister clears _registered, process has its subscription open and adds its
\* renditions to the counter once.
C12_RetryThenSuccess ==
    /\ []((RetryOn /\ rt.pc # "idle" /\ rt.calls = 1 /\ rt.last.status = 429)
            => rt.pc = "scheduled")
    /\ [](RtSecondSucceeded
            => /\ rt.pc \in {"resolved", "idle"}
               /\ rt.payload = rt.last.body
               /\ rt.error = NoError)
    /\ [](pendingRenditions = AcceptedRenditions)
    /\ [][(RtSecondSucceeded /\ rt.pc = "resolved" /\ rt'.pc = "idle")
            => /\ (rt.op = "register"
                     => /\ registered' /\ journal' = rt.payload
                        /\ lifecycle'.payload = rt.payload
                        /\ lifecycle'.pc \in {"idle", "closing"})
               /\ (rt.op = "unregister"
                     => /\ ~registered' /\ lifecycle'.payload = rt.payload
                        /\ lifecycle'.pc \in {"idle", "closing"})
               /\ (rt.op = "process"
                     => \E r \in RequestIds :
                          /\ requests[r].pc = "http"
                          /\ requests'[r].pc = "responded"
                          /\ requests'[r].payload = rt.payload
                          /\ eventEmitter' # NoEmitter /\ eventEmitter'.open)]_vars

\* process() answered 429 then 200: resolved with the second payload, subscription
\* open, its two renditions counted
C12_Witness ==
    /\ RtSecondSucceeded /\ rt.op = "process" /\ rt.pc = "idle"
    /\ \E r \in RequestIds :
          /\ requests[r].pc = "done" /\ requests[r].n = 2
          /\ requests[r].payload = rt.last.body
    /\ pendingRenditions = 2
    /\ eventEmitter # NoEmitter /\ eventEmitter.open

\* the first attempt was answered with an error that is not to be retried: a
\* status other than 429, or a 429 with disable429Retry set
RtNotRetryable ==
    /\ rt.first.status \notin {0, 200}
    /\ rt.first.status # 429 \/ rt.retryOpts.disable429Retry

\* C13: when the error of an attempt is not the rate-limit kind, or
\* disable429Retry is true, the retry engine makes exactly one attempt and rejects
\* with the error that attempt threw; a status other than 429 gives a generic
\* Error whose message carries the status and the body, and a 429 with retry
\* disabled gives the TooManyRequestsError.
C13_OneAttemptWhenNotRetryable ==
    RtNotRetryable
        => /\ rt.pc = "rejected"
           /\ rt.calls = 1
           /\ rt.last = rt.first
           /\ rt.error = (IF rt.first.status = 429 THEN TooManyRequestsError
                                                    ELSE GenericError(rt.first.status))
           /\ rt.error.name = (IF rt.first.status = 429 THEN TOO_MANY_REQUEST_ERROR
                                                         ELSE "Error")
           /\ rt.message = errorMessage(rt.op, rt.first.status, rt.first.body)

\* a 500 with two retries configured and retry on: rejected after one call
C13_Witness ==
    /\ rt.pc = "rejected" /\ rt.calls = 1
    /\ rt.first.status = 500 /\ rt.error = GenericError(500)
    /\ ~rt.disable429Retry /\ rt.max429RetryCount = 2

\* a 429 with retry disabled: rejected after one call
C13_WitnessDisabled ==
    /\ rt.pc = "rejected" /\ rt.calls = 1
    /\ rt.first.status = 429 /\ rt.error = TooManyRequestsError
    /\ rt.disable429Retry /\ rt.max429RetryCount = 2

\* C14 (as claimed): the wait before a retry lies in [1000*d, 1000*d + 999] ms
\* when the rate-limit error carries a wait of d >= 0 seconds, and in
\* [30000, 60000] ms when it carries none.
C14_WaitRange ==
    rt.pc = "waiting"
        => IF rt.retryAfter = Undefined
           THEN rt.ms \in 30000..60000
           ELSE rt.retryAfter >= 0
                  => rt.ms \in (1000 * rt.retryAfter)..(1000 * rt.retryAfter + 999)

\* the header is, as a whole, an integer written in digits
RECURSIVE AllDigitsFrom(_, _)
AllDigitsFrom(chars, i) ==
    i > Len(chars) \/ (chars[i] \in Digits /\ AllDigitsFrom(chars, i + 1))

IsIntegerText(chars) ==
    /\ Len(chars) >= 1
    /\ AllDigitsFrom(chars, 1)

RECURSIVE IntegerOf(_, _)
IntegerOf(chars, n) ==
    IF n = 0 THEN 0 ELSE IntegerOf(chars, n - 1) * 10 + DigitValue(chars[n])

\* C15 (as claimed): retryAfter is the integer when the header is a stringified
\* integer; otherwise, when the header is a stringified date T, it is
\* round((T - now) / 1000), or 1 if that is <= 0; otherwise, and without a header,
\* it is unset; name is 'TooManyRequestsError' and code 429.
C15_RetryAfterFromHeader ==
    rt.pc \in {"caught", "waiting"}
        => /\ rt.error.name = "TooManyRequestsError" /\ rt.error.code = 429
           /\ rt.retryAfter =
                (IF rt.header.string /\ IsIntegerText(rt.header.chars)
                 THEN IntegerOf(rt.header.chars, Len(rt.header.chars))
                 ELSE IF rt.header.string /\ rt.header.time # NotADate
                 THEN (IF MathRoundSeconds(rt.header.time - rt.now) > 0
                       THEN MathRoundSeconds(rt.header.time - rt.now) ELSE 1)
                 ELSE Undefined)

\* this step is the one in which a call of `op` returns successfully
CallSucceeds(op) ==
    /\ lifecycle.op = op /\ lifecycle.pc # "idle"
    /\ lifecycle'.pc = "idle" /\ lifecycle'.outcome = "ok"

\* this step is the one in which a call of register() or unregister() fails
CallFails ==
    /\ lifecycle.pc = "http"
    /\ lifecycle'.pc = "idle" /\ lifecycle'.outcome = "failed"

\* a subscription comes to exist only by a process() call
OnlyProcessSubscribes ==
    (eventEmitter = NoEmitter /\ eventEmitter' # NoEmitter)
        => \E n \in 1..MaxRenditions : process(n)

\* a process() call made while registered passes the guard and sends its request
RegisteredCanProcess ==
    \A n \in 1..MaxRenditions :
        (registered /\ process(n))
            => \E r \in RequestIds : requests[r].pc = "none" /\ requests'[r].pc = "http"

\* C16: when register() returns successfully, from whatever state it was called
\* in, _registered is true, journal is the handle that call returned, and the
\* subscription that existed has gone through `await this.eventEmitter.close()`
\* and been dropped (eventEmitter null); no subscription exists again before a
\* process() call; a registered client, also
\* one registered twice in a row, passes the guard of process().
C16_RegisterEstablishes ==
    /\ [][CallSucceeds("register")
            => /\ registered'
               /\ journal' = lifecycle'.payload
               /\ eventEmitter' = NoEmitter
               /\ (eventEmitter # NoEmitter <=> lifecycle.pc = "closing")]_vars
    /\ [][OnlyProcessSubscribes]_vars
    /\ [][RegisteredCanProcess]_vars

\* register(), process(), then register() again: registered on the second
\* journal, the subscription of the first dropped
C16_Witness ==
    /\ lifecycle.op = "register" /\ lifecycle.pc = "idle" /\ lifecycle.outcome = "ok"
    /\ registered /\ journal = 2 /\ lifecycle.payload = 2
    /\ eventEmitter = NoEmitter
    /\ \E r \in RequestIds : requests[r].pc = "done"

\* C17: when unregister() returns successfully, with or without a subscription,
\* _registered is false and no subscription remains: the one that existed went
\* through `await this.eventEmitter.close()` and was dropped; this holds for every unregister() of a client that is
\* registered and unregistered again and again.
C17_UnregisterClears ==
    [][CallSucceeds("unregister")
         => /\ ~registered'
            /\ eventEmitter' = NoEmitter
            /\ (eventEmitter # NoEmitter <=> lifecycle.pc = "closing")]_vars

\* register(), process(), unregister(): unregistered, the subscription dropped
C17_Witness ==
    /\ lifecycle.op = "unregister" /\ lifecycle.pc = "idle" /\ lifecycle.outcome = "ok"
    /\ ~registered
    /\ eventEmitter = NoEmitter
    /\ \E r \in RequestIds : requests[r].pc = "done"

\* C18: a register() or unregister() whose remote call fails rejects with the
\* error of that call, and neither calling it nor its failure changes
\* _registered, journal or the subscription; unregister() on a client that never
\* registered sends its request all the same.
C18_FailureLeavesState ==
    /\ [][CallFails
            => /\ lifecycle'.error # NoError
               /\ registered' = registered
               /\ journal' = journal
               /\ eventEmitter' = eventEmitter]_vars
    /\ [][(register \/ unregister)
            => /\ lifecycle'.pc = "http" /\ lifecycle'.calls = 1
               /\ registered' = registered
               /\ journal' = journal
               /\ eventEmitter' = eventEmitter]_vars

\* unregister() on a client that never registered failed with the error of the
\* response, the client still unregistered
C18_Witness ==
    /\ lifecycle.op = "unregister" /\ lifecycle.outcome = "failed"
    /\ lifecycle.error = GenericError(500) /\ lifecycle.calls = 1
    /\ lifecycleCalls = 1
    /\ ~registered /\ journal = 0 /\ eventEmitter = NoEmitter

\* C19: create() hands back a client only once its register() has succeeded:
\* the client it returns is registered, so that a process() right after passes
\* the guard; when validation or register() fails, create() rejects and hands
\* back no client.
C19_CreateReturnsRegistered ==
    /\ [](lifecycle.returned = "client" => registered /\ lifecycle.outcome = "ok")
    /\ []((lifecycle.op = "create" /\ lifecycle.pc = "idle" /\ lifecycle.outcome = "failed")
            => lifecycle.returned = "error")
    /\ [][(lifecycle.returned = "client"
           /\ \E n \in 1..MaxRenditions : process(n))
            => \E r \in RequestIds : requests'[r].pc = "http"]_vars
    /\ [][lifecycle.returned = "error" => UNCHANGED clientVars]_vars

\* create() returned a client and the process() that followed was accepted
C19_Witness ==
    /\ lifecycle.op = "create" /\ lifecycle.returned = "client"
    /\ registered
    /\ \E r \in RequestIds : requests[r].pc = "done"

\* create() rejected because its register() failed
C19_WitnessRejected ==
    /\ lifecycle.op = "create" /\ lifecycle.returned = "error"
    /\ lifecycle.calls = 1 /\ ~registered

C20_WitnessNoSubscription ==
    /\ lifecycleCalls = 3
    /\ lifecycle = NoCall
    /\ eventEmitter = NoEmitter /\ ~registered /\ pendingRenditions = 0

\* C21: the subscription is opened by the first process() call that succeeds
\* after a registration: as long as every process() call made so far was rejected
\* by the guard or failed in its network request (register() alone included: no
\* process() call at all), no subscription exists.
C21_LazySubscription ==
    (\A r \in RequestIds : requests[r].pc \in {"none", "rejected", "failed"})
        => eventEmitter = NoEmitter

\* this step is the delivery of an event of the journal that does not carry this
\* client's id
ForeignDelivered ==
    /\ UNCHANGED <<delivered, requests, lifecycle, eventEmitter>>
    /\ emitted'.cause = "event"
    /\ \E r \in RequestIds, i \in 0..(MaxRenditions - 1), cid \in ForeignIds :
          streamForeign(r, i, cid)

\* C22: an event of the journal that carries another client's id, or none, is
\* ignored whatever request and rendition it names: pendingRenditions, every
\* waitActivation (its slots, its count, its promise), every wait and the
\* listeners stay as they were, and the client emits neither the event nor
\* 'drained' nor 'error'.
C22_ForeignIgnored ==
    [][ForeignDelivered
          => /\ pendingRenditions' = pendingRenditions
             /\ waiters' = waiters
             /\ waits' = waits
             /\ listeners' = listeners
             /\ emitted'.event = "none"
             /\ emitted'.signal = "nothing"
             /\ emitted'.errors = 0]_vars

\* a foreign event arrived while a waitActivation was outstanding with renditions
\* pending: nothing emitted, the wait has seen no event
C22_Witness ==
    /\ emitted.cause = "event" /\ emitted.event = "none"
    /\ pendingRenditions > 0
    /\ \E w \in WaiterIds :
          /\ waiters[w].state = "pending"
          /\ waiters[w].context = NoContext
          /\ w \in listeners.rendition_created

\* the keys of an object other than assetComputeClient, with their values
OtherFields(present, object) ==
    IF present
    THEN [k \in DOMAIN object \ {"assetComputeClient"} |-> object[k]]
    ELSE EmptyObject

\* C23: process() sends as many renditions as it was given; the one sent at
\* position i has the fields of the caller's i-th rendition, a userData with the
\* caller's userData fields and assetComputeClient = {index: i, length: n}; the
\* batch userData sent has the caller's fields and assetComputeClient = {id: this
\* client's id}; the caller's array, renditions and userData are as they were.
C23_StampsCopies ==
    result.kind = "sent" =>
        LET sent == result.body
            n == Len(args.renditions)
        IN /\ Len(sent.renditions) = n
           /\ \A i \in 1..n :
                 /\ sent.renditions[i].fields = args.renditions[i].fields
                 /\ sent.renditions[i].hasUserData
                 /\ "assetComputeClient" \in DOMAIN sent.renditions[i].userData
                 /\ sent.renditions[i].userData["assetComputeClient"] = IndexStamp(i - 1, n)
                 /\ OtherFields(TRUE, sent.renditions[i].userData)
                      = OtherFields(args.renditions[i].hasUserData, args.renditions[i].userData)
           /\ sent.userData.present
           /\ "assetComputeClient" \in DOMAIN sent.userData.object
           /\ sent.userData.object["assetComputeClient"] = IdStamp(MyId)
           /\ OtherFields(TRUE, sent.userData.object)
                = OtherFields(args.userData.present, args.userData.object)
           /\ args = result.given

\* a batch of two renditions was sent: one that came with userData fields of its
\* own (an assetComputeClient among them), one without userData
C23_Witness ==
    /\ result.kind = "sent"
    /\ Len(args.renditions) = 2
    /\ args.renditions[1].hasUserData
    /\ DOMAIN args.renditions[1].userData = {"path", "assetComputeClient"}
    /\ ~args.renditions[2].hasUserData
    /\ args.userData.present /\ "asset" \in DOMAIN args.userData.object
    /\ result.body.renditions[2].userData["assetComputeClient"] = IndexStamp(1, 2)

\* the wait was called under a registration that register() has replaced since
Orphaned(w) ==
    /\ waiters[w].state = "pending"
    /\ waiters[w].journal # journal

\* C24 as stated: a waitActivation outstanding when register() succeeded again
\* is never resolved with events: it receives none, and only its timeout settles it.
C24_OrphanedForever ==
    [][\A w \in WaiterIds :
          Orphaned(w) =>
              \/ waiters'[w] = waiters[w]
              \/ /\ waiters'[w].state = "rejected"
                 /\ waiters'[w].error = "timed out"
                 /\ waiters'[w].context = waiters[w].context]_vars

\* C24, amended: register() drops the subscription and leaves every outstanding
\* waitActivation and its listeners on the client as they were; such a wait
\* receives no event while the client has no subscription, where only its timeout
\* settles it; once a later process() call has opened a new subscription, the
\* events that subscription delivers reach it again.
C24_OrphanedUntilProcess ==
    /\ [][lifecycle' # lifecycle
            => /\ waiters' = waiters
               /\ listeners' = listeners
               /\ (lifecycle'.pc = "idle" => eventEmitter' = NoEmitter)]_vars
    /\ [][\A w \in WaiterIds :
             (Orphaned(w) /\ eventEmitter = NoEmitter) =>
                 \/ waiters'[w] = waiters[w]
                 \/ /\ waiters'[w].state = "rejected"
                    /\ waiters'[w].error = "timed out"
                    /\ waiters'[w].context = waiters[w].context]_vars

\* register(), process(), waitActivation(), register() again: the wait is
\* pending and listening on the client, which has no subscription
C24_Witness ==
    \E w \in WaiterIds :
        /\ Orphaned(w)
        /\ waiters[w].context = NoContext
        /\ w \in listeners.rendition_created /\ w \in listeners.rendition_failed
        /\ lifecycle.op = "register" /\ lifecycle.pc = "idle" /\ lifecycle.outcome = "ok"
        /\ lifecycleCalls = 2
        /\ eventEmitter = NoEmitter

\* ... and after a further process() the wait was resolved with its events
C24_WitnessResolved ==
    \E w \in WaiterIds :
        /\ waiters[w].state = "resolved"
        /\ waiters[w].journal # journal
        /\ waiters[w].missed = 0
        /\ lifecycleCalls = 2

\* the journal delivered an event of this client on this step
OwnDelivered ==
    /\ emitted'.cause = "event"
    /\ delivered' # delivered

\* C25: a polling error of the subscription is emitted as one 'error' on the
\* client, where emitting it never throws, with or without 'error' listeners of
\* the consumer, and leaves the subscription and all of the client's state as
\* they were; every event of this client delivered after an error is still
\* forwarded to the client's rendition listeners.
C25_ErrorKeepsDelivery ==
    /\ [](emitted.cause = "error" => emitted.errors = 1 /\ ~emitted.thrown)
    /\ [][(emitted'.cause = "error" /\ emitted' # emitted)
            => /\ emitted'.handled = listeners.onError
               /\ eventEmitter # NoEmitter
               /\ UNCHANGED <<registered, journal, initialized, eventEmitter,
                              pendingRenditions, listeners, lifecycle, requests,
                              delivered, waiters, waits>>]_vars
    /\ [][(emitted.erred /\ OwnDelivered)
            => /\ emitted'.event \in {"rendition_created", "rendition_failed"}
               /\ ~emitted'.thrown
               /\ pendingRenditions' = completePendingRendition(pendingRenditions)
               /\ \A w \in WaiterIds :
                     waiters[w].state = "pending" /\ w \in listeners[emitted'.event]
                         => waiters'[w] # waiters[w]]_vars

\* the consumer has no 'error' listener, the subscription reported an error
\* before it delivered its only event, and that event resolved the wait
C25_Witness ==
    /\ emitted.erred /\ emitted.cause = "event"
    /\ listeners.onError = 0
    /\ EventsDelivered = 1
    /\ pendingRenditions = 0
    /\ \E w \in WaiterIds : waiters[w].state = "resolved" /\ waiters[w].missed = 0

\* C26: the client carries at most one default 'error' listener, and whenever
\* a subscription exists and the consumer has no 'error' listener of their own,
\* an error emitted on the client is logged exactly once.
C26_LoggedOnce ==
    /\ listeners.error <= 1
    /\ (eventEmitter # NoEmitter /\ listeners.onError = 0) => emitError(listeners).logged = 1

\* C27: for every integration descriptor, create() rejects at validation if and
\* only if the constructor throws for the same descriptor, and with the same error.
C27_CreateAsConstructor ==
    result.kind = "create" => result.threw = constructorThrows(args.integration)

\* C28: a step emits 'drained' exactly when it delivers an event of this client
\* that takes pendingRenditions down to exactly 0, and every wait() listening
\* for it then resolves; a step that does not decrement the counter, among them
\* every step of process(), register(), unregister() and close(), emits nothing
\* new, and what the client emits on a foreign event or a polling error is not
\* 'drained'.
C28_DrainedAtZero ==
    /\ [][pendingRenditions' < pendingRenditions
            => /\ OwnDelivered
               /\ pendingRenditions' = pendingRenditions - 1
               /\ (emitted'.signal = "drained" <=> pendingRenditions' = 0)
               /\ (emitted'.signal = "drained"
                     => \A k \in WaitIds :
                           waits[k].state = "pending" => waits'[k].state = "resolved")]_vars
    /\ [][pendingRenditions' >= pendingRenditions
            => /\ (emitted' = emitted \/ emitted'.signal # "drained")
               /\ ((lifecycle' # lifecycle \/ requests' # requests \/ eventEmitter' # eventEmitter)
                     => emitted' = emitted)
               /\ \A k \in WaitIds :
                     waits[k].state = "pending" => waits'[k].state # "resolved"]_vars

\* the last of a batch's events arrived: the counter is back at 0, 'drained' was
\* emitted and resolved the wait() that was pending
C28_Witness ==
    /\ emitted.signal = "drained" /\ emitted.cause = "event"
    /\ pendingRenditions = 0
    /\ EventsDelivered = MaxRenditions
    /\ \E k \in WaitIds : waits[k].state = "resolved" /\ waits[k].how # "immediate"

\* ... and a delivery that left the counter above 0 emitted no 'drained'
C28_WitnessNotYet ==
    /\ emitted.cause = "event" /\ emitted.event # "none"
    /\ emitted.signal = "nothing"
    /\ pendingRenditions > 0

\* C29: the delivery of an event that takes pendingRenditions below zero emits
\* one 'error' on the client and throws nothing; the event itself is still
\* emitted and runs the waitActivation listeners, 'drained' is not emitted; a
\* wait() call made while the counter is negative rejects with the internal
\* error and adds no listener.
C29_UnderflowReported ==
    /\ [][(OwnDelivered /\ pendingRenditions' < 0)
            => /\ emitted'.signal = "error"
               /\ emitted'.errors = 1
               /\ ~emitted'.thrown
               /\ emitted'.event \in {"rendition_created", "rendition_failed"}
               /\ \A w \in WaiterIds :
                     waiters[w].state = "pending" /\ w \in listeners[emitted'.event]
                         => waiters'[w] # waiters[w]
               /\ \A k \in WaitIds :
                     waits[k].state = "pending" => waits'[k] = waits[k]]_vars
    /\ [][\A k \in WaitIds :
             (pendingRenditions < 0 /\ waits[k].state = "unused" /\ waits'[k].state # "unused")
                 => /\ waits'[k].state = "rejected"
                    /\ waits'[k].how = "internal error"
                    /\ listeners' = listeners]_vars

\* an event arrived with nothing pending: the counter is negative, the 'error'
\* and the event were emitted, and wait() was rejected
C29_Witness ==
    /\ pendingRenditions < 0
    /\ emitted.signal = "error" /\ emitted.errors = 1 /\ ~emitted.thrown
    /\ emitted.event \in {"rendition_created", "rendition_failed"}
    /\ \E k \in WaitIds : waits[k].state = "rejected" /\ waits[k].how = "internal error"

\* the journal delivered an event of request r on this step
DeliveredOf(r) == delivered'[r] # delivered[r]

\* C30: the delivery of an event of one request leaves every waitActivation for
\* another request as it was (no slot filled, remaining count and state
\* unchanged), and a resolved waitActivation holds, in every slot, an event of
\* its own request, one per rendition of that request.
C30_WaitsIndependent ==
    /\ [][delivered' # delivered
            => \A r \in RequestIds, w \in WaiterIds :
                  (DeliveredOf(r) /\ waiters[w].requestId # r) => waiters'[w] = waiters[w]]_vars
    /\ [](\A w \in WaiterIds :
            waiters[w].state = "resolved"
                => /\ waiters[w].context.length = requests[waiters[w].requestId].n
                   /\ \A i \in 0..(waiters[w].context.length - 1) :
                         /\ waiters[w].context.slots[i] # NoEvent
                         /\ waiters[w].context.slots[i].requestId = waiters[w].requestId
                         /\ waiters[w].context.slots[i].index = i)

\* two waitActivation calls for different requests, both resolved
C30_Witness ==
    \E v, w \in WaiterIds :
        /\ waiters[v].state = "resolved" /\ waiters[w].state = "resolved"
        /\ waiters[v].requestId # waiters[w].requestId
        /\ waiters[v].journal = waiters[w].journal

\* ... and one of them pending with a slot filled while events of the other arrive
C30_WitnessInterleaved ==
    \E v, w \in WaiterIds :
        /\ waiters[v].state = "pending" /\ waiters[w].state = "pending"
        /\ waiters[v].requestId # waiters[w].requestId
        /\ waiters[v].context.hasEvents /\ waiters[w].context.hasEvents

MalformedShapes == EventShapes \ {"ok"}
MalformedError(shape) ==
    IF shape = "noUserData" THEN "expect userData"
    ELSE IF shape = "indexNotNumber" THEN "expect index" ELSE "expect length"

\* C31: the delivery of an event of request r without the rendition's stamp, or
\* with an index or length that is not a number, rejects every pending
\* waitActivation(r) with the matching error and removes its listeners, leaves
\* every waitActivation for another request as it was, still decrements
\* pendingRenditions and emits the event on the client, throws nothing and
\* leaves the subscription open.
C31_MalformedRejectsOne ==
    [][delivered' # delivered
         => \A r \in RequestIds, i \in 0..(MaxRenditions - 1), shape \in MalformedShapes :
               (delivered'[r][i] # delivered[r][i] /\ streamEvent(r, i, shape))
                   => /\ pendingRenditions' = pendingRenditions - 1
                      /\ emitted'.event = RenditionOutcome(i)
                      /\ ~emitted'.thrown
                      /\ eventEmitter' = eventEmitter /\ eventEmitter'.journal = journal
                      /\ \A w \in WaiterIds :
                            IF /\ waiters[w].state = "pending"
                               /\ waiters[w].requestId = r
                               /\ w \in listeners[RenditionOutcome(i)]
                            THEN /\ waiters'[w].state = "rejected"
                                 /\ waiters'[w].error = MalformedError(shape)
                                 /\ w \notin listeners'.rendition_created
                                 /\ w \notin listeners'.rendition_failed
                            ELSE waiters'[w] = waiters[w]]_vars

\* a malformed event rejected the wait for one request; the wait for the other
\* request was resolved by the event delivered afterwards
C31_Witness ==
    \E v, w \in WaiterIds :
        /\ waiters[v].state = "rejected"
        /\ waiters[v].error \in {"expect userData", "expect index", "expect length"}
        /\ waiters[w].state = "resolved"
        /\ waiters[w].requestId # waiters[v].requestId
        /\ delivered[waiters[v].requestId][0] = 0
        /\ delivered[waiters[v].requestId][1] = 1
        /\ emitted.event = "rendition_created"
        /\ pendingRenditions = 1

\* C32: AssetComputeClientRetry makes a further attempt only after attempts that
\* were answered with HTTP 429: whenever a call is at its second or a later
\* attempt, every attempt before it failed with status 429.
C32_Only429Retried ==
    (loop.pc = "call" /\ loop.calls > 1) => loop.only429

\* C33: after any sequence of register/process/unregister calls of
\* AssetComputeClientWithRetry, this.options is as the constructor left it, with
\* its max429RetryCount and without source, renditions or userData, and every
\* call has used the retry budget of the first.
C33_OptionsUnchanged ==
    /\ args.options = constructedOptions(args.configured)
    /\ \A k \in 1..Len(result.budgets) : result.budgets[k] = result.budgets[1]

\* every event of request r was delivered, each exactly once
AllDeliveredOnce(r) ==
    /\ requests[r].pc = "done"
    /\ \A i \in 0..(requests[r].n - 1) : delivered[r][i] = 1

\* C34: a waitActivation(R) called after process() returned R, all of whose
\* request's events have been delivered exactly once, is resolved with all of
\* them unless its timeout rejected it, also when some of the events were
\* delivered before it was called.
C34_LateWaitResolves ==
    \A w \in WaiterIds :
        (waiters[w].state # "unused" /\ AllDeliveredOnce(waiters[w].requestId))
            => \/ /\ waiters[w].state = "resolved"
                  /\ waiters[w].context.length = requests[waiters[w].requestId].n
               \/ /\ waiters[w].state = "rejected"
                  /\ waiters[w].error = "timed out"

\* what holds of the waits that missed no event
C34_PromptWaitResolves ==
    \A w \in WaiterIds :
        (waiters[w].state # "unused" /\ waiters[w].missed = 0
            /\ AllDeliveredOnce(waiters[w].requestId))
            => \/ /\ waiters[w].state = "resolved"
                  /\ waiters[w].context.length = requests[waiters[w].requestId].n
               \/ /\ waiters[w].state = "rejected"
                  /\ waiters[w].error = "timed out"

\* C35: whenever the client holds an event subscription, that subscription is
\* open and was created with the client's current journal.
C35_SubscriptionCurrent ==
    eventEmitter # NoEmitter
        => /\ eventEmitter.open
           /\ eventEmitter.journal = journal

\* C35, the part that does not depend on what close() does to the subscription
C35_SubscriptionOnJournal ==
    eventEmitter # NoEmitter => eventEmitter.journal = journal

\* C36: when the delivery of an event emits 'drained', the client has emitted
\* the event itself before, so that the rendition listeners ran, and every
\* waitActivation the event completes was resolved, before a 'drained' listener runs.
C36_EventBeforeDrained ==
    emitted.signal = "drained"
        => \E k \in 1..Len(emitted.order) :
              /\ emitted.order[k] = "drained"
              /\ \E j \in 1..(k - 1) : emitted.order[j] = emitted.event

\* C37: whenever a waitActivation is resolved, whatever numbers the stamps of the
\* delivered events carried, its array has the length of the batch and each
\* position 0..length-1 holds an event of its request.
C37_ResolvedArrayComplete ==
    \A w \in WaiterIds :
        waiters[w].state = "resolved"
            => /\ waiters[w].context.length = requests[waiters[w].requestId].n
               /\ \A i \in 0..(requests[waiters[w].requestId].n - 1) :
                     /\ waiters[w].context.slots[i] # NoEvent
                     /\ waiters[w].context.slots[i].requestId = waiters[w].requestId

\* C38: with retry on and max429RetryCount configured as a number m >= 0, a
\* call never sends more than m + 1 requests and one rejected with the
\* rate-limit error has sent exactly m + 1; max429RetryCount = 0 means one
\* attempt; only an unspecified max429RetryCount gives the default of 4 retries.
C38_ZeroMeansNoRetry ==
    (rt.pc # "idle" /\ ~rt.disable429Retry)
        => /\ IsNumber(rt.max429RetryCount)
                => /\ rt.retryOpts.max429RetryCount = rt.max429RetryCount
                   /\ rt.calls <= rt.max429RetryCount + 1
                   /\ (rt.pc = "rejected" /\ rt.error = TooManyRequestsError)
                         => rt.calls = rt.max429RetryCount + 1
           /\ ~IsNumber(rt.max429RetryCount)
                => rt.retryOpts.max429RetryCount = MAX_RETRY_ON_HTTP_429

\* C39: when AssetCompute.process is called with an array as its first argument,
\* every request it posts, the first and each retry, has no source, that array
\* as renditions and the second argument as userData.
C39_ArrayFirstArgument ==
    (result.attempts > 0 /\ isArray(args.source))
        => result.body = [source |-> NoValue, renditions |-> args.source,
                          userData |-> args.renditions]

\* what a call given the files of path c ends with when it runs alone
OwnConfiguration(c) ==
    IF args.integrationFiles[c] = "missing" THEN MissingFiles
    ELSE IF args.integrationFiles[c] = "yaml" THEN Configuration(c, NoPath)
    ELSE IF args.keyFiles[c] THEN Configuration(c, c) ELSE MissingFiles

\* C40: under every interleaving of two getIntegrationConfiguration calls with
\* different paths, each call hands only its own paths to the file system and
\* ends with the configuration of its own files, or with their error.
C40_CallsIndependent ==
    \A c \in ConfigCalls :
        /\ result.calls[c].target \in {NoPath, c}
        /\ result.calls[c].pc \in {"resolved", "rejected"}
              => result.calls[c].outcome = OwnConfiguration(c)

\* what holds of a call that no other call overlaps
C40_AloneIsCorrect ==
    \A c \in ConfigCalls :
        (result.calls[c].pc \in {"resolved", "rejected"}
            /\ \A d \in ConfigCalls \ {c} : result.calls[d].pc = "none")
            => result.calls[c].outcome = OwnConfiguration(c)

====
